---- MODULE Spec2Model ----
(***************************************************************************)
(* TEA trial balance -> GASB financial statements.                         *)
(*                                                                         *)
(* A model of the account-code classifier (mapping_rules.py) and of the    *)
(* statement aggregators (main.py).                                        *)
(*                                                                         *)
(* Text: a Python string is a sequence of characters; a character is a     *)
(* natural number, 0..9 being the digits '0'..'9'.  S(1225, 4) is the      *)
(* string '1225'.  Category names, which the code only compares for        *)
(* equality, are TLA+ strings.  Amounts are integers.                      *)
(***************************************************************************)
EXTENDS Integers, Sequences, FiniteSets, TLC

\* rows, mapping: the trial balance and the mapping a generator is called with
\* arg, out: the argument of a call of another function, and the last call's result
\* db: the tables of the SQLite store; now: its CURRENT_TIMESTAMP, in seconds
VARIABLES rows, mapping, arg, out, db, now

vars == <<rows, mapping, arg, out, db, now>>

(***************************************************************************)
(* Python string primitives                                                *)
(***************************************************************************)
Min(a, b) == IF a < b THEN a ELSE b

Abs(x) == IF x < 0 THEN -x ELSE x

\* s[a:b] for 0 <= a <= b: never raises, a short s gives a short result
Slice(s, a, b) == SubSeq(s, a + 1, Min(b, Len(s)))

\* s.startswith(p)
StartsWith(s, p) == Len(s) >= Len(p) /\ SubSeq(s, 1, Len(p)) = p

\* the decimal string of n, zero-padded on the left to width w
RECURSIVE S(_, _)
S(n, w) == IF w = 0 THEN <<>> ELSE Append(S(n \div 10, w - 1), n % 10)

\* s.ljust(w, '0'): str.pad(width=w, side='right', fillchar='0')
RECURSIVE PadRight(_, _)
PadRight(s, w) == IF Len(s) >= w THEN s ELSE PadRight(Append(s, 0), w)

(***************************************************************************)
(* mapping_rules.py: the static tables                                     *)
(***************************************************************************)
TEA_OBJECT_CATEGORIES ==
  (1 :> "Assets") @@ (2 :> "Liabilities") @@ (3 :> "Fund Balances/Net Position") @@
  (4 :> "Clearing Accounts") @@ (5 :> "Revenues") @@ (6 :> "Expenditures/Expenses") @@
  (7 :> "Other Resources/Non-operating Revenues") @@
  (8 :> "Other Uses/Non-operating Expenses")

\* in declaration order: a dict iterates in insertion order
GASB_CATEGORIES ==
  <<
    [category |-> "current_assets",
     tea_codes |-> {S(n, 4) : n \in {1110, 1120, 1130, 1140, 1150, 1160, 1170, 1180, 1190, 1210,
                     1220, 1225, 1230, 1240, 1250, 1260, 1267, 1270, 1280, 1290,
                     1300, 1310, 1320, 1330, 1340, 1350, 1360, 1370, 1380, 1390,
                     1410, 1420, 1430, 1440, 1450, 1460, 1470, 1480, 1490}}],
    [category |-> "capital_assets",
     tea_codes |-> {S(n, 4) : n \in {1510, 1520, 1530, 1540, 1550, 1560, 1570, 1580, 1590}}],
    [category |-> "deferred_outflows",
     tea_codes |-> {S(n, 4) : n \in {1700, 1701, 1702, 1703, 1704, 1705, 1706, 1707, 1708, 1709}}],
    [category |-> "current_liabilities",
     tea_codes |-> {S(n, 4) : n \in {2110, 2120, 2130, 2140, 2150, 2160, 2165, 2170, 2180, 2190,
                     2210, 2220, 2230, 2240, 2250, 2260, 2270, 2280, 2290, 2300,
                     2310, 2320, 2330, 2340, 2350, 2360, 2370, 2380, 2390}}],
    [category |-> "long_term_liabilities",
     tea_codes |-> {S(n, 4) : n \in {2410, 2420, 2430, 2440, 2450, 2460, 2470, 2480, 2490, 2501,
                     2502, 2510, 2520, 2530, 2540, 2545, 2550, 2560, 2570, 2580,
                     2590}}],
    [category |-> "deferred_inflows",
     tea_codes |-> {S(n, 4) : n \in {2600, 2601, 2602, 2603, 2604, 2605, 2606, 2607, 2608, 2609}}],
    [category |-> "net_investment_capital_assets",
     tea_codes |-> {S(n, 4) : n \in {3200, 3210, 3220, 3230, 3240, 3250, 3260, 3270, 3280, 3290}}],
    [category |-> "restricted_net_position",
     tea_codes |-> {S(n, 4) : n \in {3300, 3310, 3320, 3330, 3340, 3350, 3360, 3370, 3380, 3390,
                     3400, 3410, 3420, 3430, 3440, 3450, 3460, 3470, 3480, 3490,
                     3500, 3510, 3520, 3530, 3540, 3550, 3560, 3570, 3580, 3590,
                     3600, 3610, 3620, 3630, 3640, 3650, 3660, 3670, 3680, 3690,
                     3700, 3710, 3720, 3730, 3740, 3750, 3760, 3770, 3780, 3790,
                     3800, 3810, 3820, 3830, 3840, 3850, 3860, 3870, 3880, 3890}}],
    [category |-> "unrestricted_net_position",
     tea_codes |-> {S(n, 4) : n \in {3900, 3910, 3920, 3930, 3940, 3950, 3960, 3970, 3980, 3990}}],
    [category |-> "program_revenues",
     tea_codes |-> {S(n, 4) : n \in {5100, 5110, 5120, 5130, 5140, 5150, 5160, 5170, 5180, 5190,
                     5200, 5210, 5220, 5230, 5240, 5250, 5260, 5270, 5280, 5290,
                     5300, 5310, 5320, 5330, 5340, 5350, 5360, 5370, 5380, 5390}}],
    [category |-> "general_revenues",
     tea_codes |-> {S(n, 4) : n \in {5400, 5410, 5420, 5430, 5440, 5450, 5460, 5470, 5480, 5490,
                     5500, 5510, 5520, 5530, 5540, 5550, 5560, 5570, 5580, 5590,
                     5600, 5610, 5620, 5630, 5640, 5650, 5660, 5670, 5680, 5690,
                     5700, 5710, 5720, 5730, 5740, 5750, 5760, 5770, 5780, 5790,
                     5800, 5810, 5820, 5830, 5840, 5850, 5860, 5870, 5880, 5890,
                     5900, 5910, 5920, 5930, 5940, 5950, 5960, 5970, 5980, 5990}}],
    [category |-> "program_expenses",
     tea_codes |-> {S(n, 4) : n \in {6100, 6110, 6120, 6130, 6140, 6150, 6160, 6170, 6180, 6190,
                     6200, 6210, 6220, 6230, 6240, 6250, 6260, 6270, 6280, 6290,
                     6300, 6310, 6320, 6330, 6340, 6350, 6360, 6370, 6380, 6390,
                     6400, 6410, 6420, 6430, 6440, 6450, 6460, 6470, 6480, 6490,
                     6500, 6510, 6520, 6530, 6540, 6550, 6560, 6570, 6580, 6590}}],
    [category |-> "general_expenses",
     tea_codes |-> {S(n, 4) : n \in {6600, 6610, 6620, 6630, 6640, 6650, 6660, 6670, 6680, 6690,
                     6700, 6710, 6720, 6730, 6740, 6750, 6760, 6770, 6780, 6790,
                     6800, 6810, 6820, 6830, 6840, 6850, 6860, 6870, 6880, 6890,
                     6900, 6910, 6920, 6930, 6940, 6950, 6960, 6970, 6980, 6990}}],
    [category |-> "other_resources",
     tea_codes |-> {S(n, 4) : n \in {7000, 7010, 7020, 7030, 7040, 7050, 7060, 7070, 7080, 7090,
                     7100, 7110, 7120, 7130, 7140, 7150, 7160, 7170, 7180, 7190,
                     7200, 7210, 7220, 7230, 7240, 7250, 7260, 7270, 7280, 7290,
                     7300, 7310, 7320, 7330, 7340, 7350, 7360, 7370, 7380, 7390,
                     7400, 7410, 7420, 7430, 7440, 7450, 7460, 7470, 7480, 7490,
                     7500, 7510, 7520, 7530, 7540, 7550, 7560, 7570, 7580, 7590,
                     7600, 7610, 7620, 7630, 7640, 7650, 7660, 7670, 7680, 7690,
                     7700, 7710, 7720, 7730, 7740, 7750, 7760, 7770, 7780, 7790,
                     7800, 7810, 7820, 7830, 7840, 7850, 7860, 7870, 7880, 7890,
                     7900, 7910, 7915, 7920, 7930, 7940, 7950, 7960, 7970, 7980,
                     7990}}],
    [category |-> "other_uses",
     tea_codes |-> {S(n, 4) : n \in {8000, 8010, 8020, 8030, 8040, 8050, 8060, 8070, 8080, 8090,
                     8100, 8110, 8120, 8130, 8140, 8150, 8160, 8170, 8180, 8190,
                     8200, 8210, 8220, 8230, 8240, 8250, 8260, 8270, 8280, 8290,
                     8300, 8310, 8320, 8330, 8340, 8350, 8360, 8370, 8380, 8390,
                     8400, 8410, 8420, 8430, 8440, 8450, 8460, 8470, 8480, 8490,
                     8500, 8510, 8520, 8530, 8540, 8550, 8560, 8570, 8580, 8590,
                     8600, 8610, 8620, 8630, 8640, 8650, 8660, 8670, 8680, 8690,
                     8700, 8710, 8720, 8730, 8740, 8750, 8760, 8770, 8780, 8790,
                     8800, 8810, 8820, 8830, 8840, 8850, 8860, 8870, 8880, 8890,
                     8900, 8910, 8920, 8930, 8940, 8950, 8960, 8970, 8980, 8990}}],
    [category |-> "clearing_accounts",
     tea_codes |-> {S(n, 4) : n \in {4000, 4010, 4020, 4030, 4040, 4050, 4060, 4070, 4080, 4090,
                     4100, 4110, 4120, 4130, 4140, 4150, 4160, 4170, 4180, 4190,
                     4200, 4210, 4220, 4230, 4240, 4250, 4260, 4270, 4280, 4290,
                     4300, 4310, 4320, 4330, 4340, 4350, 4360, 4370, 4380, 4390,
                     4400, 4410, 4420, 4430, 4440, 4450, 4460, 4470, 4480, 4490,
                     4500, 4510, 4520, 4530, 4540, 4550, 4560, 4570, 4580, 4590,
                     4600, 4610, 4620, 4630, 4640, 4650, 4660, 4670, 4680, 4690,
                     4700, 4710, 4720, 4730, 4740, 4750, 4760, 4770, 4780, 4790,
                     4800, 4810, 4820, 4830, 4840, 4850, 4860, 4870, 4880, 4890,
                     4900, 4910, 4920, 4930, 4940, 4950, 4960, 4970, 4980, 4990}}]
  >>

\* in declaration order; every list is the dense range of its hundred
FUND_CATEGORIES ==
  <<
    [category |-> "general_fund",           fund_codes |-> {S(n, 3) : n \in 100..199}],
    [category |-> "special_revenue_funds",  fund_codes |-> {S(n, 3) : n \in 200..299}],
    [category |-> "enterprise_funds",       fund_codes |-> {S(n, 3) : n \in 300..399}],
    [category |-> "internal_service_funds", fund_codes |-> {S(n, 3) : n \in 400..499}],
    [category |-> "debt_service_funds",     fund_codes |-> {S(n, 3) : n \in 500..599}],
    [category |-> "capital_projects_funds", fund_codes |-> {S(n, 3) : n \in 600..699}],
    [category |-> "permanent_funds",        fund_codes |-> {S(n, 3) : n \in 700..799}],
    [category |-> "fiduciary_funds",        fund_codes |-> {S(n, 3) : n \in 800..899}]
  >>

(***************************************************************************)
(* mapping_rules.py: the classifier                                        *)
(***************************************************************************)
NoCode == <<-1>>

NoKey == "<no key>"

\* dict.get(key, default)
Get(value, default) == IF value = NoKey THEN default ELSE value

\* get_tea_category whose .get(first_digit) has no default: None for the digits 0 and 9
get_tea_category_without_default(account_code) ==
  IF Len(account_code) >= 9
  THEN LET first_digit == account_code[6]
       IN  IF first_digit \in DOMAIN TEA_OBJECT_CATEGORIES
           THEN TEA_OBJECT_CATEGORIES[first_digit]
           ELSE NoKey
  ELSE "Unknown"

get_tea_category(account_code) ==
  IF Len(account_code) >= 9
  THEN LET first_digit == account_code[6]
       IN  IF first_digit \in DOMAIN TEA_OBJECT_CATEGORIES
           THEN TEA_OBJECT_CATEGORIES[first_digit]
           ELSE "Unknown"
  ELSE "Unknown"

\* the index of the first category whose tea_codes hold the object code, 0 if none
GasbExactMatch(object_code) ==
  LET hits == {i \in DOMAIN GASB_CATEGORIES : object_code \in GASB_CATEGORIES[i].tea_codes}
  IN  IF hits = {} THEN 0 ELSE CHOOSE i \in hits : \A j \in hits : i <= j

\* the prefix rules that follow the exact-match loop
GasbPatternMatch(object_code) ==
  IF StartsWith(object_code, <<1>>) THEN
    IF \E p \in {11, 12, 13, 14} : StartsWith(object_code, S(p, 2)) THEN "current_assets"
    ELSE IF StartsWith(object_code, S(15, 2)) THEN "capital_assets"
    ELSE IF StartsWith(object_code, S(17, 2)) THEN "deferred_outflows"
    ELSE "current_assets"
  ELSE IF StartsWith(object_code, <<2>>) THEN
    IF \E p \in {21, 22, 23} : StartsWith(object_code, S(p, 2)) THEN "current_liabilities"
    ELSE IF \E p \in {24, 25} : StartsWith(object_code, S(p, 2)) THEN "long_term_liabilities"
    ELSE IF StartsWith(object_code, S(26, 2)) THEN "deferred_inflows"
    ELSE "current_liabilities"
  ELSE IF StartsWith(object_code, <<3>>) THEN
    IF StartsWith(object_code, S(32, 2)) THEN "net_investment_capital_assets"
    ELSE IF \E p \in {33, 34, 35, 36, 37, 38} : StartsWith(object_code, S(p, 2))
      THEN "restricted_net_position"
    ELSE IF StartsWith(object_code, S(39, 2)) THEN "unrestricted_net_position"
    ELSE "restricted_net_position"
  ELSE IF StartsWith(object_code, <<5>>) THEN
    IF \E p \in {51, 52, 53} : StartsWith(object_code, S(p, 2)) THEN "program_revenues"
    ELSE "general_revenues"
  ELSE IF StartsWith(object_code, <<6>>) THEN
    IF \E p \in {61, 62, 63, 64, 65} : StartsWith(object_code, S(p, 2)) THEN "program_expenses"
    ELSE "general_expenses"
  ELSE IF StartsWith(object_code, <<7>>) THEN "other_resources"
  ELSE IF StartsWith(object_code, <<8>>) THEN "other_uses"
  ELSE "unknown"

\* get_gasb_category without the loop over the tea_codes lists
get_gasb_category_by_prefix_alone(account_code) ==
  IF Len(account_code) >= 9
  THEN GasbPatternMatch(Slice(account_code, 5, 9))
  ELSE "unknown"

get_gasb_category(account_code) ==
  IF Len(account_code) >= 9
  THEN LET object_code == Slice(account_code, 5, 9)
           hit == GasbExactMatch(object_code)
       IN  IF hit # 0 THEN GASB_CATEGORIES[hit].category
           ELSE GasbPatternMatch(object_code)
  ELSE "unknown"

get_fund_category(account_code) ==
  IF Len(account_code) >= 3
  THEN LET fund_code == Slice(account_code, 0, 3)
           hits == {i \in DOMAIN FUND_CATEGORIES : fund_code \in FUND_CATEGORIES[i].fund_codes}
       IN  IF hits # {} THEN FUND_CATEGORIES[CHOOSE i \in hits : \A j \in hits : i <= j].category
           ELSE IF StartsWith(fund_code, <<1>>) THEN "general_fund"
           ELSE IF StartsWith(fund_code, <<2>>) THEN "special_revenue_funds"
           ELSE IF StartsWith(fund_code, <<5>>) THEN "debt_service_funds"
           ELSE IF StartsWith(fund_code, <<6>>) THEN "capital_projects_funds"
           ELSE IF StartsWith(fund_code, <<7>>) THEN "permanent_funds"
           ELSE "other_governmental_funds"
  ELSE "other_governmental_funds"

(***************************************************************************)
(* Inputs of the aggregators.                                              *)
(*                                                                         *)
(* A trial-balance row is [account_code, current_year_actual].  A mapping  *)
(* is a function from account codes (the dict's keys) to entries; an entry *)
(* is a record of the four keys the aggregators read, a key the dict does  *)
(* not carry holding NoCode / NoKey.                                       *)
(***************************************************************************)
(***************************************************************************)
(* main.py: generate_government_wide_net_position                          *)
(***************************************************************************)
NP_ASSETS ==
  << "assets.cash_and_cash_equivalents", "assets.property_taxes_receivable",
     "assets.due_from_other_governments", "assets.due_from_fiduciary",
     "assets.other_receivables", "assets.inventories", "assets.unrealized_expenses",
     "assets.capital_assets.land", "assets.capital_assets.buildings_improvements",
     "assets.capital_assets.furniture_equipment",
     "assets.capital_assets.construction_in_progress" >>

NP_DEFERRED_OUTFLOWS ==
  << "deferred_outflows.deferred_charge_refunding",
     "deferred_outflows.deferred_outflow_pensions",
     "deferred_outflows.deferred_outflow_opeb" >>

NP_LIABILITIES ==
  << "liabilities.accounts_payable", "liabilities.interest_payable",
     "liabilities.accrued_liabilities", "liabilities.due_to_other_governments",
     "liabilities.unearned_revenue",
     "liabilities.noncurrent_liabilities.due_within_one_year",
     "liabilities.noncurrent_liabilities.due_more_than_one_year",
     "liabilities.noncurrent_liabilities.net_pension_liability",
     "liabilities.noncurrent_liabilities.net_opeb_liability" >>

NP_DEFERRED_INFLOWS ==
  << "deferred_inflows.deferred_inflow_pensions", "deferred_inflows.deferred_inflow_opeb" >>

NP_NET_POSITION ==
  << "net_position.net_investment_capital_assets",
     "net_position.restricted.state_federal_programs",
     "net_position.restricted.debt_service", "net_position.unrestricted" >>

Range(seq) == {seq[i] : i \in DOMAIN seq}

NP_LEAVES ==
  Range(NP_ASSETS) \cup Range(NP_DEFERRED_OUTFLOWS) \cup Range(NP_LIABILITIES)
    \cup Range(NP_DEFERRED_INFLOWS) \cup Range(NP_NET_POSITION)

NP_TOTALS ==
  { "assets.total_assets", "deferred_outflows.total_deferred_outflows",
    "liabilities.total_liabilities", "deferred_inflows.total_deferred_inflows",
    "net_position.total_net_position" }

\* the statement dict as initialised: every amount 0, balance_validation 0/0/False
NetPositionTemplate ==
  [ amount     |-> [p \in NP_LEAVES \cup NP_TOTALS |-> 0],
    left_side  |-> 0,
    right_side |-> 0,
    balanced   |-> FALSE ]

\* the 15xx branch without its closing else: the other 15xx codes are in no line
NetPositionCapitalAssetLineWithoutElse(object_code) ==
  IF object_code = S(1510, 4) THEN "assets.capital_assets.land"
  ELSE IF object_code = S(1520, 4) THEN "assets.capital_assets.buildings_improvements"
  ELSE IF object_code = S(1530, 4) THEN "assets.capital_assets.furniture_equipment"
  ELSE IF object_code = S(1580, 4) THEN "assets.capital_assets.construction_in_progress"
  ELSE ""

\* the branch elif object_code.startswith('15') of the row loop
NetPositionCapitalAssetLine(object_code) ==
  IF object_code = S(1510, 4) THEN "assets.capital_assets.land"
  ELSE IF object_code = S(1520, 4) THEN "assets.capital_assets.buildings_improvements"
  ELSE IF object_code = S(1530, 4) THEN "assets.capital_assets.furniture_equipment"
  ELSE IF object_code = S(1580, 4) THEN "assets.capital_assets.construction_in_progress"
  ELSE "assets.capital_assets.buildings_improvements"

\* the if/elif tree of the row loop: the line a row's amount is added to, "" if none
NetPositionLine(object_code) ==
  IF StartsWith(object_code, <<1>>) THEN
    IF StartsWith(object_code, S(11, 2)) THEN "assets.cash_and_cash_equivalents"
    ELSE IF StartsWith(object_code, S(12, 2)) THEN
      IF object_code = S(1225, 4) THEN "assets.property_taxes_receivable"
      ELSE IF object_code = S(1240, 4) THEN "assets.due_from_other_governments"
      ELSE IF object_code = S(1267, 4) THEN "assets.due_from_fiduciary"
      ELSE "assets.other_receivables"
    ELSE IF StartsWith(object_code, S(13, 2)) THEN "assets.inventories"
    ELSE IF StartsWith(object_code, S(14, 2)) THEN "assets.unrealized_expenses"
    ELSE IF StartsWith(object_code, S(15, 2)) THEN NetPositionCapitalAssetLine(object_code)
    ELSE IF StartsWith(object_code, S(17, 2)) THEN
      IF object_code = S(1701, 4) THEN "deferred_outflows.deferred_charge_refunding"
      ELSE IF object_code = S(1705, 4) THEN "deferred_outflows.deferred_outflow_pensions"
      ELSE IF object_code = S(1706, 4) THEN "deferred_outflows.deferred_outflow_opeb"
      ELSE "deferred_outflows.deferred_charge_refunding"
    ELSE ""
  ELSE IF StartsWith(object_code, <<2>>) THEN
    IF StartsWith(object_code, S(21, 2)) THEN
      IF object_code = S(2110, 4) THEN "liabilities.accounts_payable"
      ELSE IF object_code = S(2140, 4) THEN "liabilities.interest_payable"
      ELSE IF object_code = S(2165, 4) THEN "liabilities.accrued_liabilities"
      ELSE IF object_code = S(2180, 4) THEN "liabilities.due_to_other_governments"
      ELSE IF object_code = S(2300, 4) THEN "liabilities.unearned_revenue"
      ELSE "liabilities.accounts_payable"
    ELSE IF StartsWith(object_code, S(25, 2)) THEN
      IF object_code = S(2501, 4) THEN "liabilities.noncurrent_liabilities.due_within_one_year"
      ELSE IF object_code = S(2502, 4)
        THEN "liabilities.noncurrent_liabilities.due_more_than_one_year"
      ELSE IF object_code = S(2540, 4)
        THEN "liabilities.noncurrent_liabilities.net_pension_liability"
      ELSE IF object_code = S(2545, 4) THEN "liabilities.noncurrent_liabilities.net_opeb_liability"
      ELSE "liabilities.noncurrent_liabilities.due_more_than_one_year"
    ELSE IF StartsWith(object_code, S(26, 2)) THEN
      IF object_code = S(2605, 4) THEN "deferred_inflows.deferred_inflow_pensions"
      ELSE IF object_code = S(2606, 4) THEN "deferred_inflows.deferred_inflow_opeb"
      ELSE "deferred_inflows.deferred_inflow_pensions"
    ELSE ""
  ELSE IF StartsWith(object_code, <<3>>) THEN
    IF StartsWith(object_code, S(32, 2)) THEN "net_position.net_investment_capital_assets"
    ELSE IF StartsWith(object_code, S(38, 2)) THEN
      IF object_code = S(3820, 4) THEN "net_position.restricted.state_federal_programs"
      ELSE IF object_code = S(3850, 4) THEN "net_position.restricted.debt_service"
      ELSE "net_position.restricted.state_federal_programs"
    ELSE IF StartsWith(object_code, S(39, 2)) THEN "net_position.unrestricted"
    ELSE ""
  ELSE ""

\* object_code = account_code[5:9] if len(account_code) >= 9 else '0000'
NetPositionObjectCode(account_code) ==
  IF Len(account_code) >= 9 THEN Slice(account_code, 5, 9) ELSE S(0, 4)

\* one pass of the row loop
NetPositionAddRow(amount, row, mapping_) ==
  IF row.account_code \in DOMAIN mapping_
  THEN LET line == NetPositionLine(NetPositionObjectCode(row.account_code))
       IN  IF line = "" THEN amount
           ELSE [amount EXCEPT ![line] = @ + row.current_year_actual]
  ELSE amount

\* the row loop: for _, row in df.iterrows()
RECURSIVE NetPositionRows(_, _, _)
NetPositionRows(amount, df, mapping_) ==
  IF df = <<>> THEN amount
  ELSE NetPositionRows(NetPositionAddRow(amount, Head(df), mapping_), Tail(df), mapping_)

\* the sum of the amounts of the named lines
RECURSIVE SumLines(_, _)
SumLines(amount, lines) ==
  IF lines = <<>> THEN 0 ELSE amount[Head(lines)] + SumLines(amount, Tail(lines))

\* the totals with total_assets summed over the lines outside capital_assets
NetPositionTotalsWithoutCapitalAssets(amount) ==
  [amount EXCEPT
     !["assets.total_assets"] = SumLines(amount, SubSeq(NP_ASSETS, 1, 7)),
     !["deferred_outflows.total_deferred_outflows"] = SumLines(amount, NP_DEFERRED_OUTFLOWS),
     !["liabilities.total_liabilities"] = SumLines(amount, NP_LIABILITIES),
     !["deferred_inflows.total_deferred_inflows"] = SumLines(amount, NP_DEFERRED_INFLOWS),
     !["net_position.total_net_position"] = SumLines(amount, NP_NET_POSITION)]

\* "Calculate totals": each total is the sum of its named children
NetPositionTotals(amount) ==
  [amount EXCEPT
     !["assets.total_assets"] = SumLines(amount, NP_ASSETS),
     !["deferred_outflows.total_deferred_outflows"] = SumLines(amount, NP_DEFERRED_OUTFLOWS),
     !["liabilities.total_liabilities"] = SumLines(amount, NP_LIABILITIES),
     !["deferred_inflows.total_deferred_inflows"] = SumLines(amount, NP_DEFERRED_INFLOWS),
     !["net_position.total_net_position"] = SumLines(amount, NP_NET_POSITION)]

\* abs(left_side - right_side) < 0.01, the amounts being whole numbers
Balanced(left_side, right_side) == Abs(left_side - right_side) * 100 < 1

generate_government_wide_net_position(df, mapping_) ==
  LET amount == NetPositionTotals(NetPositionRows(NetPositionTemplate.amount, df, mapping_))
      left_side == amount["assets.total_assets"]
                     + amount["deferred_outflows.total_deferred_outflows"]
      right_side == amount["liabilities.total_liabilities"]
                      + amount["deferred_inflows.total_deferred_inflows"]
                      + amount["net_position.total_net_position"]
  IN  [ amount     |-> amount,
        left_side  |-> left_side,
        right_side |-> right_side,
        balanced   |-> Balanced(left_side, right_side) ]

(***************************************************************************)
(* main.py: generate_government_wide_activities                            *)
(***************************************************************************)
\* the program lines, in template order, without the two total lines
ACT_PROGRAMS ==
  << "instruction", "instructional_resources", "curriculum_staff_dev",
     "instructional_leadership", "school_leadership", "guidance_counseling", "social_work",
     "health_services", "student_transportation", "food_service", "cocurricular",
     "general_admin", "facilities_maintenance", "security_monitoring", "data_processing",
     "community_services", "interest_long_term_debt", "bond_issuance_costs",
     "capital_outlay", "shared_services", "other_intergovernmental" >>

ACT_TOTALS == {"total_governmental", "total_primary"}

\* the general-revenue lines, without total_general_revenues (code 'TR')
ACT_GENERAL_REVENUES ==
  << "property_taxes_general", "property_taxes_debt", "chapter_313_payments",
     "investment_earnings", "grants_contributions", "miscellaneous" >>

ActivitiesTemplate ==
  [ programs |-> [k \in Range(ACT_PROGRAMS) \cup ACT_TOTALS |->
                    [expenses |-> 0, charges_for_services |-> 0, operating_grants |-> 0,
                     net_expense_revenue |-> 0]],
    general_revenues |-> [k \in Range(ACT_GENERAL_REVENUES) \cup {"total_general_revenues"}
                            |-> 0],
    net_position |-> [k \in {"change_in_net_position", "net_position_beginning",
                             "net_position_ending"} |-> 0] ]

\* the if/elif chain on function_code of the expenses branch
ActivitiesExpenseProgram(function_code) ==
  CASE function_code = S(11, 2) -> "instruction"
    [] function_code = S(12, 2) -> "instructional_resources"
    [] function_code = S(13, 2) -> "curriculum_staff_dev"
    [] function_code = S(21, 2) -> "instructional_leadership"
    [] function_code = S(23, 2) -> "school_leadership"
    [] function_code = S(31, 2) -> "guidance_counseling"
    [] function_code = S(32, 2) -> "social_work"
    [] function_code = S(33, 2) -> "health_services"
    [] function_code = S(34, 2) -> "student_transportation"
    [] function_code = S(35, 2) -> "food_service"
    [] function_code = S(36, 2) -> "cocurricular"
    [] function_code = S(41, 2) -> "general_admin"
    [] function_code = S(51, 2) -> "facilities_maintenance"
    [] function_code = S(52, 2) -> "security_monitoring"
    [] function_code = S(53, 2) -> "data_processing"
    [] function_code = S(61, 2) -> "community_services"
    [] function_code = S(72, 2) -> "interest_long_term_debt"
    [] function_code = S(73, 2) -> "bond_issuance_costs"
    [] function_code = S(81, 2) -> "capital_outlay"
    [] function_code = S(93, 2) -> "shared_services"
    [] function_code = S(99, 2) -> "other_intergovernmental"
    [] OTHER -> "general_admin"

\* sub in s, for two Python strings
Contains(s, sub) ==
  \E i \in 0..(Len(s) - Len(sub)) : SubSeq(s, i + 1, i + Len(sub)) = sub

\* the letters the general-revenue tests look for in an account code
CHR_C == 67
CHR_D == 68
CHR_E == 69
CHR_G == 71
CHR_I == 73
CHR_M == 77
CHR_T == 84

\* the words of the general-revenue tests that tea_category.lower() contains: none of the
\* classifier's category names, nor '', contains any of them
TeaCategoryWords(tea_category) ==
  CASE tea_category = "Property Taxes" -> {"property"}
    [] tea_category = "Investment Income" -> {"investment"}
    [] OTHER -> {}

\* the if/elif chain of the general_revenues branch
ActivitiesGeneralRevenueLine(account_code, tea_category) ==
  LET words == TeaCategoryWords(tea_category)
  IN  IF Contains(account_code, <<CHR_M, CHR_T>>) \/ "property" \in words
        THEN "property_taxes_general"
      ELSE IF Contains(account_code, <<CHR_D, CHR_T>>) \/ "debt" \in words
        THEN "property_taxes_debt"
      ELSE IF Contains(account_code, <<3, 1, 3>>) \/ "chapter" \in words
        THEN "chapter_313_payments"
      ELSE IF Contains(account_code, <<CHR_I, CHR_E>>) \/ "investment" \in words
        THEN "investment_earnings"
      ELSE IF Contains(account_code, <<CHR_G, CHR_C>>) \/ "grant" \in words
        THEN "grants_contributions"
      ELSE IF Contains(account_code, <<CHR_M, CHR_I>>) \/ "miscellaneous" \in words
        THEN "miscellaneous"
      ELSE "miscellaneous"

\* function_code = account_code[3:5] if len(account_code) >= 5 else '00'
ActivitiesFunctionCode(account_code) ==
  IF Len(account_code) >= 5 THEN Slice(account_code, 3, 5) ELSE S(0, 2)

\* one pass of the row loop
ActivitiesAddRow(st, row, mapping_) ==
  IF row.account_code \in DOMAIN mapping_
  THEN LET account_mapping == mapping_[row.account_code]
           gasb_category == Get(account_mapping.gasb_category, "")
           tea_category == Get(account_mapping.tea_category, "")
           function_code == ActivitiesFunctionCode(row.account_code)
           amount == row.current_year_actual
       IN  IF gasb_category \in {"program_expenses", "general_expenses"}
             THEN [st EXCEPT !.programs[ActivitiesExpenseProgram(function_code)].expenses
                               = @ + amount]
           ELSE IF gasb_category = "program_revenues"
             THEN IF function_code = S(36, 2)
                    THEN [st EXCEPT !.programs["cocurricular"].charges_for_services = @ + amount]
                  ELSE [st EXCEPT !.programs["instruction"].operating_grants = @ + amount]
           ELSE IF gasb_category = "general_revenues"
             THEN [st EXCEPT !.general_revenues[
                     ActivitiesGeneralRevenueLine(row.account_code, tea_category)] = @ + amount]
           ELSE st
  ELSE st

RECURSIVE ActivitiesRows(_, _, _)
ActivitiesRows(st, df, mapping_) ==
  IF df = <<>> THEN st
  ELSE ActivitiesRows(ActivitiesAddRow(st, Head(df), mapping_), Tail(df), mapping_)

\* net_expense_revenue of every program line that is no total line
\* the net expense of a program without its operating grants
ActivitiesNetExpenseWithoutGrants(st) ==
  [st EXCEPT !.programs = [k \in DOMAIN st.programs |->
     LET program_data == st.programs[k]
     IN  IF k \in ACT_TOTALS THEN program_data
         ELSE [program_data EXCEPT !.net_expense_revenue =
                 program_data.expenses - program_data.charges_for_services]]]

ActivitiesNetExpense(st) ==
  [st EXCEPT !.programs = [k \in DOMAIN st.programs |->
     LET program_data == st.programs[k]
     IN  IF k \in ACT_TOTALS THEN program_data
         ELSE [program_data EXCEPT !.net_expense_revenue =
                 program_data.expenses - program_data.charges_for_services
                   - program_data.operating_grants]]]

\* sum(program[field] for the program lines that are no total line)
RECURSIVE SumPrograms(_, _, _)
SumPrograms(programs, field, keys) ==
  IF keys = <<>> THEN 0
  ELSE programs[Head(keys)][field] + SumPrograms(programs, field, Tail(keys))

\* the beginning net position the code writes into every statement
NET_POSITION_BEGINNING == 37913236

ActivitiesTotals(st) ==
  LET total == [field \in {"expenses", "charges_for_services", "operating_grants",
                           "net_expense_revenue"}
                  |-> SumPrograms(st.programs, field, ACT_PROGRAMS)]
      total_general_revenues == SumLines(st.general_revenues, ACT_GENERAL_REVENUES)
      change_in_net_position == total_general_revenues + total["net_expense_revenue"]
  IN  [ programs |-> [st.programs EXCEPT !["total_governmental"] = total,
                                         !["total_primary"] = total],
        general_revenues |-> [st.general_revenues EXCEPT
                                !["total_general_revenues"] = total_general_revenues],
        net_position |-> [ change_in_net_position |-> change_in_net_position,
                           net_position_beginning |-> NET_POSITION_BEGINNING,
                           net_position_ending |->
                             NET_POSITION_BEGINNING + change_in_net_position ] ]

generate_government_wide_activities(df, mapping_) ==
  ActivitiesTotals(ActivitiesNetExpense(ActivitiesRows(ActivitiesTemplate, df, mapping_)))

(***************************************************************************)
(* main.py: the two governmental-funds statements, common part             *)
(***************************************************************************)
FUND_KEYS == <<"general_fund", "non_major_funds">>

ZeroFunds == [fk \in Range(FUND_KEYS) |-> 0]

\* an entry that carries none of the keys: DataFrame.from_dict gives it no column
EntryHasNoKeys(e) ==
  e.account_code = NoCode /\ e.tea_category = NoKey /\ e.gasb_category = NoKey
    /\ e.fund_category = NoKey

\* map_df.empty: no mapping, or a frame with no column
MapDfEmpty(mapping_) ==
  DOMAIN mapping_ = {} \/ \A k \in DOMAIN mapping_ : EntryHasNoKeys(mapping_[k])

\* map_df[['account_code', 'fund_category']] raises KeyError when no entry carries
\* fund_category (account_code is filled from the index when no entry carries it)
FundsRaises(mapping_) ==
  ~MapDfEmpty(mapping_) /\ \A k \in DOMAIN mapping_ : mapping_[k].fund_category = NoKey

\* map_df['account_code'] without the line that fills it from the index
MapDfAccountCodeWithoutIndex(mapping_, k) == mapping_[k].account_code

\* map_df['account_code'] of the entry under key k: the entry's own value (NaN = NoCode
\* when it has none), or the index when no entry carries the key
MapDfAccountCode(mapping_, k) ==
  IF \A j \in DOMAIN mapping_ : mapping_[j].account_code = NoCode
  THEN k
  ELSE mapping_[k].account_code

\* a fund_key that takes every fund_category other than NaN for the general fund
FundKeyOfAnyCategory(fund_category) ==
  IF fund_category # NoKey THEN "general_fund" ELSE "non_major_funds"

\* lambda x: 'general_fund' if x == 'general_fund' else 'non_major_funds'
FundKey(fund_category) ==
  IF fund_category = "general_fund" THEN "general_fund" ELSE "non_major_funds"

RECURSIVE SetToSeq(_)
SetToSeq(set) ==
  IF set = {} THEN <<>>
  ELSE LET x == CHOOSE y \in set : TRUE IN <<x>> \o SetToSeq(set \ {x})

\* the rows that dfv.merge(..., on='account_code', how='left') makes of one row: one per
\* entry whose account_code equals the row's, or one with fund_category NaN (= NoKey)
MergeRow(row, mapping_) ==
  LET account_code == row.account_code
      base == [object_code |-> Slice(account_code, 5, 9),
               function_code |-> Slice(account_code, 3, 5),
               amount |-> row.current_year_actual]
      matches == {k \in DOMAIN mapping_ : MapDfAccountCode(mapping_, k) = account_code}
      one(fund_category) ==
        [object_code |-> base.object_code, function_code |-> base.function_code,
         amount |-> base.amount, fund_key |-> FundKey(fund_category)]
      matched == SetToSeq(matches)
  IN  IF MapDfEmpty(mapping_) THEN <<one("general_fund")>>
      ELSE IF matches = {} THEN <<one(NoKey)>>
      ELSE [i \in DOMAIN matched |-> one(mapping_[matched[i]].fund_category)]

\* dfv after the merge and the fund_key column
RECURSIVE FundsFrame(_, _)
FundsFrame(df, mapping_) ==
  IF df = <<>> THEN <<>>
  ELSE MergeRow(Head(df), mapping_) \o FundsFrame(Tail(df), mapping_)

\* node[target_path[-1]][fk] += float(val), for every add_sum call the row is in
RECURSIVE AddToLines(_, _, _)
AddToLines(amount, calls, r) ==
  IF calls = <<>> THEN amount
  ELSE AddToLines([amount EXCEPT ![Head(calls).path][r.fund_key] = @ + r.amount],
                  Tail(calls), r)

(***************************************************************************)
(* main.py: generate_governmental_funds_balance                            *)
(***************************************************************************)
FB_ASSETS ==
  << "assets.cash_and_equivalents", "assets.taxes_receivable",
     "assets.due_from_other_governments", "assets.due_from_other_funds",
     "assets.other_receivables", "assets.inventories", "assets.unrealized_expenditures" >>

FB_LIABILITIES ==
  << "liabilities.current_liabilities.accounts_payable",
     "liabilities.current_liabilities.payroll_deductions",
     "liabilities.current_liabilities.accrued_wages",
     "liabilities.current_liabilities.due_to_other_funds",
     "liabilities.current_liabilities.due_to_other_governments",
     "liabilities.current_liabilities.unearned_revenue" >>

FB_DEFERRED_INFLOWS == << "deferred_inflows.unavailable_revenue_property_taxes" >>

FB_FUND_BALANCES ==
  << "fund_balances.nonspendable.inventories", "fund_balances.nonspendable.prepaid_items",
     "fund_balances.restricted.federal_state_funds",
     "fund_balances.restricted.retirement_long_term_debt",
     "fund_balances.restricted.other_restrictions", "fund_balances.committed.construction",
     "fund_balances.committed.other_committed", "fund_balances.assigned.other_assigned",
     "fund_balances.unassigned" >>

FB_LEAVES ==
  Range(FB_ASSETS) \cup Range(FB_LIABILITIES) \cup Range(FB_DEFERRED_INFLOWS)
    \cup Range(FB_FUND_BALANCES)

FB_TOTALS ==
  { "assets.total_assets", "liabilities.total_liabilities",
    "deferred_inflows.total_deferred_inflows", "fund_balances.total_fund_balances",
    "total_liabilities_deferred_fund_balances" }

FundsBalanceTemplate ==
  [ raised |-> "", amount |-> [p \in FB_LEAVES \cup FB_TOTALS |-> ZeroFunds] ]

\* the add_sum calls, in order, whose mask a row with this object code is in
FundsBalanceCalls(oc) ==
  SelectSeq(
   << [mask |-> StartsWith(oc, S(11, 2)), path |-> "assets.cash_and_equivalents"],
      [mask |-> oc = S(1225, 4), path |-> "assets.taxes_receivable"],
      [mask |-> oc = S(1240, 4), path |-> "assets.due_from_other_governments"],
      [mask |-> oc = S(1260, 4), path |-> "assets.due_from_other_funds"],
      [mask |-> StartsWith(oc, S(12, 2)) /\ oc \notin {S(1225, 4), S(1240, 4), S(1260, 4)},
       path |-> "assets.other_receivables"],
      [mask |-> StartsWith(oc, S(13, 2)), path |-> "assets.inventories"],
      [mask |-> StartsWith(oc, S(14, 2)), path |-> "assets.unrealized_expenditures"],
      [mask |-> oc = S(2110, 4), path |-> "liabilities.current_liabilities.accounts_payable"],
      [mask |-> oc = S(2150, 4), path |-> "liabilities.current_liabilities.payroll_deductions"],
      [mask |-> oc = S(2160, 4), path |-> "liabilities.current_liabilities.accrued_wages"],
      [mask |-> oc = S(2170, 4), path |-> "liabilities.current_liabilities.due_to_other_funds"],
      [mask |-> oc = S(2180, 4),
       path |-> "liabilities.current_liabilities.due_to_other_governments"],
      [mask |-> oc = S(2300, 4), path |-> "liabilities.current_liabilities.unearned_revenue"],
      [mask |-> oc = S(2601, 4) \/ StartsWith(oc, S(26, 2)),
       path |-> "deferred_inflows.unavailable_revenue_property_taxes"],
      [mask |-> oc = S(3410, 4), path |-> "fund_balances.nonspendable.inventories"],
      [mask |-> oc = S(3430, 4), path |-> "fund_balances.nonspendable.prepaid_items"],
      [mask |-> oc = S(3450, 4), path |-> "fund_balances.restricted.federal_state_funds"],
      [mask |-> oc = S(3480, 4), path |-> "fund_balances.restricted.retirement_long_term_debt"],
      [mask |-> oc = S(3490, 4)
                  \/ (StartsWith(oc, S(34, 2))
                        /\ oc \notin {S(3410, 4), S(3430, 4), S(3450, 4), S(3480, 4)}),
       path |-> "fund_balances.restricted.other_restrictions"],
      [mask |-> oc = S(3510, 4), path |-> "fund_balances.committed.construction"],
      [mask |-> oc = S(3545, 4), path |-> "fund_balances.committed.other_committed"],
      [mask |-> oc = S(3590, 4)
                  \/ (StartsWith(oc, S(35, 2))
                        /\ oc \notin {S(3510, 4), S(3545, 4), S(3590, 4)}),
       path |-> "fund_balances.assigned.other_assigned"],
      [mask |-> StartsWith(oc, S(36, 2)), path |-> "fund_balances.unassigned"] >>,
   LAMBDA call : call.mask)

RECURSIVE FundsBalanceRows(_, _)
FundsBalanceRows(amount, dfv) ==
  IF dfv = <<>> THEN amount
  ELSE FundsBalanceRows(AddToLines(amount, FundsBalanceCalls(Head(dfv).object_code), Head(dfv)),
                        Tail(dfv))

\* the sum over the named lines, in one fund column
RECURSIVE SumFund(_, _, _)
SumFund(amount, lines, fk) ==
  IF lines = <<>> THEN 0 ELSE amount[Head(lines)][fk] + SumFund(amount, Tail(lines), fk)

\* "Calculate totals for each fund"
FundsBalanceTotals(amount) ==
  LET total_assets == [fk \in Range(FUND_KEYS) |-> SumFund(amount, FB_ASSETS, fk)]
      total_liabilities == [fk \in Range(FUND_KEYS) |-> SumFund(amount, FB_LIABILITIES, fk)]
      total_deferred_inflows ==
        [fk \in Range(FUND_KEYS) |-> SumFund(amount, FB_DEFERRED_INFLOWS, fk)]
      total_fund_balances ==
        [fk \in Range(FUND_KEYS) |-> SumFund(amount, FB_FUND_BALANCES, fk)]
  IN  [amount EXCEPT
         !["assets.total_assets"] = total_assets,
         !["liabilities.total_liabilities"] = total_liabilities,
         !["deferred_inflows.total_deferred_inflows"] = total_deferred_inflows,
         !["fund_balances.total_fund_balances"] = total_fund_balances,
         !["total_liabilities_deferred_fund_balances"] =
            [fk \in Range(FUND_KEYS) |->
               total_liabilities[fk] + total_deferred_inflows[fk] + total_fund_balances[fk]]]

generate_governmental_funds_balance(df, mapping_) ==
  IF df = <<>> THEN FundsBalanceTemplate
  ELSE IF FundsRaises(mapping_) THEN [raised |-> "KeyError", amount |-> <<>>]
  ELSE [ raised |-> "",
         amount |-> FundsBalanceTotals(
                      FundsBalanceRows(FundsBalanceTemplate.amount, FundsFrame(df, mapping_))) ]

(***************************************************************************)
(* main.py: generate_governmental_funds_revenues_expenditures              *)
(***************************************************************************)
RE_REVENUES ==
  << "revenues.local_intermediate_sources", "revenues.state_program_revenues",
     "revenues.federal_program_revenues" >>

\* exp_map, in order
EXP_MAP ==
  <<
     [fcode |-> S(11, 2), path |-> "expenditures.current.instruction"],
     [fcode |-> S(12, 2), path |-> "expenditures.current.instructional_resources"],
     [fcode |-> S(13, 2), path |-> "expenditures.current.curriculum_staff_dev"],
     [fcode |-> S(21, 2), path |-> "expenditures.current.instructional_leadership"],
     [fcode |-> S(23, 2), path |-> "expenditures.current.school_leadership"],
     [fcode |-> S(31, 2), path |-> "expenditures.current.guidance_counseling"],
     [fcode |-> S(32, 2), path |-> "expenditures.current.social_work"],
     [fcode |-> S(33, 2), path |-> "expenditures.current.health_services"],
     [fcode |-> S(34, 2), path |-> "expenditures.current.student_transportation"],
     [fcode |-> S(35, 2), path |-> "expenditures.current.food_service"],
     [fcode |-> S(36, 2), path |-> "expenditures.current.cocurricular"],
     [fcode |-> S(41, 2), path |-> "expenditures.current.general_admin"],
     [fcode |-> S(51, 2), path |-> "expenditures.current.facilities_maintenance"],
     [fcode |-> S(52, 2), path |-> "expenditures.current.security_monitoring"],
     [fcode |-> S(53, 2), path |-> "expenditures.current.data_processing"],
     [fcode |-> S(61, 2), path |-> "expenditures.current.community_services"],
     [fcode |-> S(71, 2), path |-> "expenditures.current.principal_long_term_debt"],
     [fcode |-> S(72, 2), path |-> "expenditures.current.interest_long_term_debt"],
     [fcode |-> S(73, 2), path |-> "expenditures.current.bond_issuance_costs"],
     [fcode |-> S(81, 2), path |-> "expenditures.current.capital_outlay"],
     [fcode |-> S(93, 2), path |-> "expenditures.current.shared_service_arrangements"],
     [fcode |-> S(99, 2), path |-> "expenditures.current.other_intergovernmental"]
  >>

RE_EXPENDITURES == [i \in DOMAIN EXP_MAP |-> EXP_MAP[i].path]

RE_OTHER_FINANCING ==
  << "other_financing.sale_property", "other_financing.transfers_in",
     "other_financing.premium_bond_remarketing", "other_financing.other_resources",
     "other_financing.transfers_out" >>

RE_LEAVES == Range(RE_REVENUES) \cup Range(RE_EXPENDITURES) \cup Range(RE_OTHER_FINANCING)

RE_TOTALS ==
  { "revenues.total_revenues", "expenditures.total_expenditures", "excess_deficiency",
    "other_financing.total_other_financing", "net_change", "fund_balances.beginning",
    "fund_balances.ending" }

FundsRevExpTemplate ==
  [ raised |-> "", amount |-> [p \in RE_LEAVES \cup RE_TOTALS |-> ZeroFunds] ]

\* str.contains(r'57|58|59'): the pattern found anywhere in the string
Contains575859(oc) ==
  \E p \in {57, 58, 59} : \E i \in 0..(Len(oc) - 2) : Slice(oc, i, i + 2) = S(p, 2)

\* str.match(r'57|58|59'): the pattern matches at the start of the string
Match575859(oc) == \E p \in {57, 58, 59} : StartsWith(oc, S(p, 2))

\* the add_sum calls, in order, whose mask a row is in
FundsRevExpCalls(oc, fc) ==
  SelectSeq(
   << [mask |-> StartsWith(oc, S(57, 2)), path |-> "revenues.local_intermediate_sources"],
      [mask |-> StartsWith(oc, S(58, 2)), path |-> "revenues.state_program_revenues"],
      [mask |-> StartsWith(oc, S(59, 2)), path |-> "revenues.federal_program_revenues"],
      [mask |-> StartsWith(oc, <<5>>) /\ ~Match575859(oc),
       path |-> "revenues.local_intermediate_sources"] >>
   \o [i \in DOMAIN EXP_MAP |->
         [mask |-> StartsWith(oc, <<6>>) /\ fc = EXP_MAP[i].fcode, path |-> EXP_MAP[i].path]]
   \o
   << [mask |-> StartsWith(oc, <<6>>) /\ fc \notin {EXP_MAP[i].fcode : i \in DOMAIN EXP_MAP},
       path |-> "expenditures.current.general_admin"],
      [mask |-> oc = S(7912, 4), path |-> "other_financing.sale_property"],
      [mask |-> oc = S(7915, 4), path |-> "other_financing.transfers_in"],
      [mask |-> oc = S(7916, 4), path |-> "other_financing.premium_bond_remarketing"],
      [mask |-> oc = S(7949, 4), path |-> "other_financing.other_resources"],
      [mask |-> StartsWith(oc, S(79, 2))
                  /\ oc \notin {S(7912, 4), S(7915, 4), S(7916, 4), S(7949, 4)},
       path |-> "other_financing.other_resources"],
      [mask |-> oc = S(8911, 4) \/ StartsWith(oc, <<8>>),
       path |-> "other_financing.transfers_out"] >>,
   LAMBDA call : call.mask)

RECURSIVE FundsRevExpRows(_, _)
FundsRevExpRows(amount, dfv) ==
  IF dfv = <<>> THEN amount
  ELSE FundsRevExpRows(
         AddToLines(amount, FundsRevExpCalls(Head(dfv).object_code, Head(dfv).function_code),
                    Head(dfv)),
         Tail(dfv))

\* the beginning fund balances the code writes once the trial balance is not empty
BEGINNING_GENERAL_FUND == 25217718
BEGINNING_NON_MAJOR_FUNDS == 4550784

\* "Calculate totals for each fund"
FundsRevExpTotals(amount) ==
  LET total_revenues == [fk \in Range(FUND_KEYS) |-> SumFund(amount, RE_REVENUES, fk)]
      total_expenditures == [fk \in Range(FUND_KEYS) |-> SumFund(amount, RE_EXPENDITURES, fk)]
      excess_deficiency ==
        [fk \in Range(FUND_KEYS) |-> total_revenues[fk] - total_expenditures[fk]]
      total_other_financing ==
        [fk \in Range(FUND_KEYS) |-> SumFund(amount, RE_OTHER_FINANCING, fk)]
      net_change ==
        [fk \in Range(FUND_KEYS) |-> excess_deficiency[fk] + total_other_financing[fk]]
      beginning ==
        [fk \in Range(FUND_KEYS) |->
           IF fk = "general_fund" THEN BEGINNING_GENERAL_FUND ELSE BEGINNING_NON_MAJOR_FUNDS]
  IN  [amount EXCEPT
         !["revenues.total_revenues"] = total_revenues,
         !["expenditures.total_expenditures"] = total_expenditures,
         !["excess_deficiency"] = excess_deficiency,
         !["other_financing.total_other_financing"] = total_other_financing,
         !["net_change"] = net_change,
         !["fund_balances.beginning"] = beginning,
         !["fund_balances.ending"] =
            [fk \in Range(FUND_KEYS) |-> beginning[fk] + net_change[fk]]]

generate_governmental_funds_revenues_expenditures(df, mapping_) ==
  IF df = <<>> THEN FundsRevExpTemplate
  ELSE IF FundsRaises(mapping_) THEN [raised |-> "KeyError", amount |-> <<>>]
  ELSE [ raised |-> "",
         amount |-> FundsRevExpTotals(
                      FundsRevExpRows(FundsRevExpTemplate.amount, FundsFrame(df, mapping_))) ]

(***************************************************************************)
(* main.py: get_statement_mapping_info                                     *)
(***************************************************************************)
Line(code, description) == [code |-> code, description |-> description]

\* the defaults: statement_line_code 'XX', 'Unmapped Account'
NoLine == Line("XX", "Unmapped Account")

\* gasb_category in ['current_assets', 'capital_assets']
InfoAssetLine(object_code) ==
  IF StartsWith(object_code, S(11, 2)) THEN Line("1110", "Cash and Cash Equivalents")
  ELSE IF StartsWith(object_code, S(12, 2)) THEN
    IF object_code = S(1225, 4) THEN Line("1225", "Property Taxes Receivable (Net)")
    ELSE IF object_code = S(1240, 4) THEN Line("1240", "Due from Other Governments")
    ELSE IF object_code = S(1267, 4) THEN Line("1267", "Due from Fiduciary")
    ELSE Line("1290", "Other Receivables (Net)")
  ELSE IF StartsWith(object_code, S(13, 2)) THEN Line("1300", "Inventories")
  ELSE IF StartsWith(object_code, S(14, 2)) THEN Line("1410", "Unrealized Expenses")
  ELSE IF StartsWith(object_code, S(15, 2)) THEN
    IF object_code = S(1510, 4) THEN Line("1510", "Land")
    ELSE IF object_code = S(1520, 4) THEN Line("1520", "Buildings and Improvements, Net")
    ELSE IF object_code = S(1530, 4) THEN Line("1530", "Furniture and Equipment, Net")
    ELSE IF object_code = S(1580, 4) THEN Line("1580", "Construction in Progress")
    ELSE Line("1520", "Buildings and Improvements, Net")
  ELSE NoLine

\* gasb_category == 'deferred_outflows'
InfoDeferredOutflowLine(object_code) ==
  IF object_code = S(1701, 4) THEN Line("1701", "Deferred Charge for Refunding")
  ELSE IF object_code = S(1705, 4) THEN Line("1705", "Deferred Outflow Related to Pensions")
  ELSE IF object_code = S(1706, 4) THEN Line("1706", "Deferred Outflow Related to OPEB")
  ELSE Line("1701", "Deferred Charge for Refunding")

\* gasb_category in ['current_liabilities', 'long_term_liabilities']
InfoLiabilityLine(object_code) ==
  IF StartsWith(object_code, S(21, 2)) THEN
    IF object_code = S(2110, 4) THEN Line("2110", "Accounts Payable")
    ELSE IF object_code = S(2140, 4) THEN Line("2140", "Interest Payable")
    ELSE IF object_code = S(2165, 4) THEN Line("2165", "Accrued Liabilities")
    ELSE IF object_code = S(2180, 4) THEN Line("2180", "Due to Other Governments")
    ELSE IF object_code = S(2300, 4) THEN Line("2300", "Unearned Revenue")
    ELSE Line("2110", "Accounts Payable")
  ELSE IF StartsWith(object_code, S(25, 2)) THEN
    IF object_code = S(2501, 4) THEN Line("2501", "Due Within One Year")
    ELSE IF object_code = S(2502, 4) THEN Line("2502", "Due in More Than One Year")
    ELSE IF object_code = S(2540, 4) THEN Line("2540", "Net Pension Liability")
    ELSE IF object_code = S(2545, 4) THEN Line("2545", "Net OPEB Liability")
    ELSE Line("2502", "Due in More Than One Year")
  ELSE NoLine

\* gasb_category == 'deferred_inflows'
InfoDeferredInflowLine(object_code) ==
  IF object_code = S(2605, 4) THEN Line("2605", "Deferred Inflow Related to Pensions")
  ELSE IF object_code = S(2606, 4) THEN Line("2606", "Deferred Inflow Related to OPEB")
  ELSE Line("2605", "Deferred Inflow Related to Pensions")

\* the three net-position categories
InfoNetPositionLine(gasb_category, object_code) ==
  IF gasb_category = "net_investment_capital_assets"
    THEN Line("3200", "Net Investment in Capital Assets")
  ELSE IF gasb_category = "restricted_net_position" THEN
    IF object_code = S(3820, 4) THEN Line("3820", "State and Federal Programs")
    ELSE IF object_code = S(3850, 4) THEN Line("3850", "Debt Service")
    ELSE Line("3820", "State and Federal Programs")
  ELSE Line("3900", "Unrestricted")

\* the programs by function code
INFO_PROGRAMS ==
  << [function_code |-> S(11, 2), code |-> "11", description |-> "Instruction"],
     [function_code |-> S(12, 2), code |-> "12", description |-> "Instructional Resources and Media Services"],
     [function_code |-> S(13, 2), code |-> "13", description |-> "Curriculum and Staff Development"],
     [function_code |-> S(21, 2), code |-> "21", description |-> "Instructional Leadership"],
     [function_code |-> S(23, 2), code |-> "23", description |-> "School Leadership"],
     [function_code |-> S(31, 2), code |-> "31", description |-> "Guidance, Counseling, and Evaluation Services"],
     [function_code |-> S(32, 2), code |-> "32", description |-> "Social Work Services"],
     [function_code |-> S(33, 2), code |-> "33", description |-> "Health Services"],
     [function_code |-> S(34, 2), code |-> "34", description |-> "Student Transportation"],
     [function_code |-> S(35, 2), code |-> "35", description |-> "Food Service"],
     [function_code |-> S(36, 2), code |-> "36", description |-> "Cocurricular/Extracurricular Activities"],
     [function_code |-> S(41, 2), code |-> "41", description |-> "General Administration"],
     [function_code |-> S(51, 2), code |-> "51", description |-> "Facilities Maintenance and Operations"],
     [function_code |-> S(52, 2), code |-> "52", description |-> "Security and Monitoring Services"],
     [function_code |-> S(53, 2), code |-> "53", description |-> "Data Processing Services"],
     [function_code |-> S(61, 2), code |-> "61", description |-> "Community Services"],
     [function_code |-> S(72, 2), code |-> "72", description |-> "Interest on Long-term Debt"],
     [function_code |-> S(73, 2), code |-> "73", description |-> "Bond Issuance Costs and Fees"],
     [function_code |-> S(81, 2), code |-> "81", description |-> "Capital Outlay"],
     [function_code |-> S(93, 2), code |-> "93", description |-> "Payments Related to Shared Services Arrangements"],
     [function_code |-> S(99, 2), code |-> "99", description |-> "Other Intergovernmental Charges"] >>

\* gasb_category in ['program_expenses', 'general_expenses']
InfoProgramLine(function_code) ==
  LET hit == SelectSeq(INFO_PROGRAMS, LAMBDA p : p.function_code = function_code)
  IN  IF hit # <<>> THEN Line(hit[1].code, hit[1].description)
      ELSE Line("41", "General Administration")

\* gasb_category == 'other_resources'
InfoOtherResourcesLine(object_code) ==
  IF object_code = S(7915, 4) THEN Line("7915", "Other Resources")
  ELSE IF StartsWith(object_code, S(70, 2)) THEN Line("70", "Investment Earnings")
  ELSE IF StartsWith(object_code, S(72, 2)) THEN Line("72", "Transfers In")
  ELSE IF StartsWith(object_code, S(74, 2)) THEN Line("74", "Proceeds from Debt")
  ELSE Line("79", "Other Resources")

\* gasb_category == 'other_uses'
InfoOtherUsesLine(object_code) ==
  IF StartsWith(object_code, S(80, 2)) THEN Line("80", "Interest Expense")
  ELSE IF StartsWith(object_code, S(82, 2)) THEN Line("82", "Transfers Out")
  ELSE IF StartsWith(object_code, S(84, 2)) THEN Line("84", "Principal Payments on Debt")
  ELSE Line("89", "Other Uses")

Info(statement_type, statement_section, line) ==
  [ statement_type |-> statement_type,
    statement_section |-> statement_section,
    statement_line_code |-> line.code,
    statement_line_description |-> line.description ]

get_statement_mapping_info(account_code, gasb_category, object_code, function_code) ==
  IF gasb_category = "Unmapped" THEN Info("Unknown", "Unknown", NoLine)
  ELSE IF gasb_category \in {"current_assets", "capital_assets"}
    THEN Info("Net Position", "ASSETS", InfoAssetLine(object_code))
  ELSE IF gasb_category = "deferred_outflows"
    THEN Info("Net Position", "DEFERRED OUTFLOWS OF RESOURCES",
              InfoDeferredOutflowLine(object_code))
  ELSE IF gasb_category \in {"current_liabilities", "long_term_liabilities"}
    THEN Info("Net Position", "LIABILITIES", InfoLiabilityLine(object_code))
  ELSE IF gasb_category = "deferred_inflows"
    THEN Info("Net Position", "DEFERRED INFLOWS OF RESOURCES",
              InfoDeferredInflowLine(object_code))
  ELSE IF gasb_category \in {"net_investment_capital_assets", "restricted_net_position",
                             "unrestricted_net_position"}
    THEN Info("Net Position", "NET POSITION", InfoNetPositionLine(gasb_category, object_code))
  ELSE IF gasb_category \in {"program_expenses", "general_expenses"}
    THEN Info("Activities", "Governmental Activities", InfoProgramLine(function_code))
  ELSE IF gasb_category = "program_revenues"
    THEN Info("Activities", "General Revenues", Line("PR", "Program Revenues"))
  ELSE IF gasb_category = "general_revenues"
    THEN Info("Activities", "General Revenues",
              Line("MT", "Property Taxes, Levied for General Purposes"))
  ELSE IF gasb_category = "other_resources"
    THEN Info("Activities", "General Revenues", InfoOtherResourcesLine(object_code))
  ELSE IF gasb_category = "other_uses"
    THEN Info("Activities", "Governmental Activities", InfoOtherUsesLine(object_code))
  ELSE IF \E d \in {1, 2, 3} : StartsWith(object_code, <<d>>)
    THEN Info("Balance Sheet",
              IF StartsWith(object_code, <<1>>) THEN "ASSETS"
              ELSE IF StartsWith(object_code, <<2>>) THEN "LIABILITIES"
              ELSE "FUND BALANCES",
              NoLine)
  ELSE IF \E d \in {5, 6} : StartsWith(object_code, <<d>>)
    THEN Info("Revenues & Expenditures",
              IF StartsWith(object_code, <<5>>) THEN "REVENUES" ELSE "EXPENDITURES",
              NoLine)
  ELSE Info("Unknown", "Unknown", NoLine)

(***************************************************************************)
(* main.py: get_rollup_information, and the code parsing of get_audit_trail *)
(***************************************************************************)
\* get_rollup_information without the lists of codes that have a line of their own
get_rollup_information_without_exclusions(account_code, gasb_category, object_code) ==
  IF gasb_category # "Unmapped"
       /\ \E p \in {11, 12, 15, 21, 25, 38} : StartsWith(object_code, S(p, 2))
  THEN [rollup_applied |-> TRUE, rollup_description |-> "Rolled up"]
  ELSE [rollup_applied |-> FALSE, rollup_description |-> ""]

get_rollup_information(account_code, gasb_category, object_code) ==
  IF gasb_category = "Unmapped"
    THEN [rollup_applied |-> FALSE, rollup_description |-> ""]
  ELSE IF StartsWith(object_code, S(11, 2))
    THEN [rollup_applied |-> TRUE,
          rollup_description |-> "Rolled up into Cash and Cash Equivalents"]
  ELSE IF StartsWith(object_code, S(12, 2))
            /\ object_code \notin {S(1225, 4), S(1240, 4), S(1267, 4)}
    THEN [rollup_applied |-> TRUE,
          rollup_description |-> "Rolled up into Other Receivables (Net)"]
  ELSE IF StartsWith(object_code, S(15, 2))
            /\ object_code \notin {S(1510, 4), S(1520, 4), S(1530, 4), S(1580, 4)}
    THEN [rollup_applied |-> TRUE,
          rollup_description |-> "Rolled up into Buildings and Improvements, Net"]
  ELSE IF StartsWith(object_code, S(21, 2))
            /\ object_code \notin {S(2110, 4), S(2140, 4), S(2165, 4), S(2180, 4), S(2300, 4)}
    THEN [rollup_applied |-> TRUE, rollup_description |-> "Rolled up into Accounts Payable"]
  ELSE IF StartsWith(object_code, S(25, 2))
            /\ object_code \notin {S(2501, 4), S(2502, 4), S(2540, 4), S(2545, 4)}
    THEN [rollup_applied |-> TRUE,
          rollup_description |-> "Rolled up into Due in More Than One Year"]
  ELSE IF StartsWith(object_code, S(38, 2)) /\ object_code \notin {S(3820, 4), S(3850, 4)}
    THEN [rollup_applied |-> TRUE,
          rollup_description |-> "Rolled up into State and Federal Programs"]
  ELSE [rollup_applied |-> FALSE, rollup_description |-> ""]

\* the width get_audit_trail pads an account code to
ACCOUNT_CODE_WIDTH == 19

\* object_code of get_audit_trail: the code padded right with '0', then [5:9]
AuditObjectCode(account_code) == Slice(PadRight(account_code, ACCOUNT_CODE_WIDTH), 5, 9)

(***************************************************************************)
(* mapping_rules.py: create_default_mapping                                *)
(***************************************************************************)
\* the text 'Account '
ACCOUNT_PREFIX == <<65, 99, 99, 111, 117, 110, 116, 32>>

\* an entry described by the bare code
DefaultEntryDescribedByCode(code) ==
  [ account_code   |-> code,
    description    |-> code,
    tea_category   |-> get_tea_category(code),
    gasb_category  |-> get_gasb_category(code),
    fund_category  |-> get_fund_category(code),
    statement_line |-> "XX",
    notes          |-> "" ]

DefaultEntry(code) ==
  [ account_code   |-> code,
    description    |-> ACCOUNT_PREFIX \o code,
    tea_category   |-> get_tea_category(code),
    gasb_category  |-> get_gasb_category(code),
    fund_category  |-> get_fund_category(code),
    statement_line |-> "XX",
    notes          |-> "" ]

create_default_mapping(account_codes) == [code \in account_codes |-> DefaultEntry(code)]

(***************************************************************************)
(* The inputs the aggregators are run on                                   *)
(***************************************************************************)
\* fund_code + function_code + object_code + sub_object_code + location_code
Code(fund, function, object) == S(fund, 3) \o S(function, 2) \o S(object, 4) \o S(0, 10)

\* object codes with a line of their own, in a default bucket, and in no bucket
Codes ==
  { Code(199, 11, 1110), Code(199, 0, 1599), Code(211, 11, 1600), Code(211, 0, 2300),
    Code(199, 11, 3200), Code(420, 41, 6100) }

Amounts == {5000, -3}

Rows == [account_code : Codes, current_year_actual : Amounts]

MaxRows == 2

RECURSIVE SeqsUpTo(_, _)
SeqsUpTo(set, n) ==
  IF n = 0 THEN {<<>>}
  ELSE LET shorter == SeqsUpTo(set, n - 1)
       IN  shorter \cup {Append(s, x) : s \in {q \in shorter : Len(q) = n - 1}, x \in set}

\* an entry as the mapping store returns it with the user's edit of fund_category
EditedEntry(code) ==
  [DefaultEntry(code) EXCEPT
     !.fund_category = IF @ = "general_fund" THEN "" ELSE "general_fund"]

\* an entry that carries gasb_category and fund_category alone
BareEntry(code) ==
  [DefaultEntry(code) EXCEPT !.account_code = NoCode, !.tea_category = NoKey,
                             !.description = NoCode, !.statement_line = NoKey,
                             !.notes = NoKey]

\* the mappings: of none, one, all but one or all of the codes; as create_default_mapping
\* builds them, as the store returns them after an edit, or bare
KeySets == {K \in SUBSET Codes : Cardinality(K) <= 1 \/ Cardinality(K) >= Cardinality(Codes) - 1}

Mappings ==
  UNION { { create_default_mapping(K), [k \in K |-> EditedEntry(k)], [k \in K |-> BareEntry(k)] }
          : K \in KeySets }

\* df with the columns the funds generators give their working frame before the merge
FrameAfterFundsWithoutCopy(df) ==
  [i \in DOMAIN df |->
     [ account_code |-> df[i].account_code,
       current_year_actual |-> df[i].current_year_actual,
       object_code |-> Slice(df[i].account_code, 5, 9),
       function_code |-> Slice(df[i].account_code, 3, 5),
       amount |-> df[i].current_year_actual ]]

\* df after a call of a funds generator: the columns are given to dfv = df.copy(), and the
\* frame of the mapping is built anew from the dictionary
FrameAfterFunds(df) == df

\* out holds the one call of a run and what it returned
NoResult == [fn |-> "", result |-> <<>>]

\* the users of the store
Users == {"u1", "u2"}

\* get_trial_balance_data of a user who has uploaded nothing
NoData == <<[is_none |-> TRUE]>>

\* the store after init_db, before any upload
EmptyDb ==
  [ trial_balance_data   |-> [u \in Users |-> NoData],
    account_mappings     |-> {},
    financial_statements |-> <<>>,
    audit_trails         |-> <<>> ]

Init ==
  /\ rows \in SeqsUpTo(Rows, MaxRows)
  /\ mapping \in Mappings
  /\ arg = <<>>
  /\ out = NoResult
  /\ db = EmptyDb
  /\ now = 0

NetPosition ==
  /\ out = NoResult
  /\ out' = [fn |-> "generate_government_wide_net_position",
             result |-> generate_government_wide_net_position(rows, mapping)]
  /\ UNCHANGED <<rows, mapping, arg, db, now>>

Activities ==
  /\ out = NoResult
  /\ out' = [fn |-> "generate_government_wide_activities",
             result |-> generate_government_wide_activities(rows, mapping)]
  /\ UNCHANGED <<rows, mapping, arg, db, now>>

FundsBalance ==
  /\ out = NoResult
  /\ out' = [fn |-> "generate_governmental_funds_balance",
             result |-> generate_governmental_funds_balance(rows, mapping)]
  /\ rows' = FrameAfterFunds(rows)
  /\ UNCHANGED <<mapping, arg, db, now>>

FundsRevExp ==
  /\ out = NoResult
  /\ out' = [fn |-> "generate_governmental_funds_revenues_expenditures",
             result |-> generate_governmental_funds_revenues_expenditures(rows, mapping)]
  /\ rows' = FrameAfterFunds(rows)
  /\ UNCHANGED <<mapping, arg, db, now>>

Next == NetPosition \/ Activities \/ FundsBalance \/ FundsRevExp

Spec == Init /\ [][Next]_vars

(***************************************************************************)
(* The funds statement of revenues and expenditures, row by row            *)
(***************************************************************************)
\* revenues of the three lines and of the default bucket, expenditures of functions in
\* exp_map and outside it, in both fund columns, and a row that is neither
RevExpCodes ==
  { Code(199, 11, 5711), Code(211, 0, 5800), Code(199, 11, 5929), Code(199, 0, 5057),
    Code(199, 11, 6100), Code(211, 99, 6100), Code(211, 45, 6200), Code(420, 41, 6300),
    Code(199, 11, 1110) }

RevExpRows == [account_code : RevExpCodes, current_year_actual : Amounts]

\* no mapping, every code mapped by create_default_mapping, or the codes of one fund alone
RevExpMappings ==
  { <<>>, create_default_mapping(RevExpCodes),
    create_default_mapping({c \in RevExpCodes : Slice(c, 0, 3) = S(211, 3)}) }

InitRevExp ==
  /\ rows \in SeqsUpTo(RevExpRows, MaxRows)
  /\ mapping \in RevExpMappings
  /\ arg = <<>>
  /\ out = NoResult
  /\ db = EmptyDb
  /\ now = 0

SpecRevExp == InitRevExp /\ [][Next]_vars

(***************************************************************************)
(* The aggregators over mappings whose entries lack keys                   *)
(***************************************************************************)
MALFORMED_KEYS == {"account_code", "tea_category", "gasb_category", "fund_category"}

\* the entry of a code without the keys dropped, or with its categories empty
MalformedEntry(code, dropped) ==
  [ account_code   |-> IF "account_code" \in dropped THEN NoCode ELSE code,
    description    |-> ACCOUNT_PREFIX \o code,
    tea_category   |-> IF "tea_category" \in dropped THEN NoKey ELSE get_tea_category(code),
    gasb_category  |-> IF "gasb_category" \in dropped THEN NoKey ELSE get_gasb_category(code),
    fund_category  |-> IF "fund_category" \in dropped THEN NoKey ELSE get_fund_category(code),
    statement_line |-> "XX",
    notes          |-> "" ]

EmptyValuedEntry(code) ==
  [DefaultEntry(code) EXCEPT !.tea_category = "", !.gasb_category = "", !.fund_category = ""]

MalformedEntries(code) ==
  {MalformedEntry(code, dropped) : dropped \in SUBSET MALFORMED_KEYS}
    \cup {EmptyValuedEntry(code)}

MalformedCodes == {Code(199, 11, 1110), Code(211, 0, 2300)}

MalformedMappings ==
  UNION { {m \in [K -> UNION {MalformedEntries(k) : k \in K}] :
             \A k \in K : m[k] \in MalformedEntries(k)}
          : K \in (SUBSET MalformedCodes) \ {{}} }

InitMalformed ==
  /\ rows \in SeqsUpTo([account_code : MalformedCodes, current_year_actual : {5000}], MaxRows)
  /\ mapping \in MalformedMappings
  /\ arg = <<>>
  /\ out = NoResult
  /\ db = EmptyDb
  /\ now = 0

SpecMalformed == InitMalformed /\ [][Next]_vars

(***************************************************************************)
(* The classifier, and the aggregators on one row, over every account code *)
(***************************************************************************)
\* every fund code, every object code, and codes too short for some segment
ClassifyCodes ==
  {Code(fund, 11, 1110) : fund \in 0..999}
    \cup {SubSeq(Code(199, 11, object), 1, 9) : object \in 0..9999}
    \cup {SubSeq(Code(199, 11, 1110), 1, n) : n \in 0..8}

\* a trial balance of one row with the code, mapped by create_default_mapping
InitClassify ==
  /\ arg \in ClassifyCodes
  /\ rows = <<[account_code |-> arg, current_year_actual |-> 5000]>>
  /\ mapping = create_default_mapping({arg})
  /\ out = NoResult
  /\ db = EmptyDb
  /\ now = 0

TeaCategory ==
  /\ out = NoResult
  /\ out' = [fn |-> "get_tea_category", result |-> get_tea_category(arg)]
  /\ UNCHANGED <<rows, mapping, arg, db, now>>

GasbCategory ==
  /\ out = NoResult
  /\ out' = [fn |-> "get_gasb_category", result |-> get_gasb_category(arg)]
  /\ UNCHANGED <<rows, mapping, arg, db, now>>

FundCategory ==
  /\ out = NoResult
  /\ out' = [fn |-> "get_fund_category", result |-> get_fund_category(arg)]
  /\ UNCHANGED <<rows, mapping, arg, db, now>>

\* the rollup of a row of the audit trail: gasb_category is the entry's, or 'Unmapped'
\* for a row without entry
RollupInformation ==
  /\ out = NoResult
  /\ \E gasb_category \in {get_gasb_category(arg), "Unmapped"} :
       out' = [fn |-> "get_rollup_information",
               gasb_category |-> gasb_category,
               result |-> get_rollup_information(arg, gasb_category, AuditObjectCode(arg))]
  /\ UNCHANGED <<rows, mapping, arg, db, now>>

NextClassify == Next \/ TeaCategory \/ GasbCategory \/ FundCategory \/ RollupInformation

SpecClassify == InitClassify /\ [][NextClassify]_vars

(***************************************************************************)
(* mapping_rules.py: validate_account_code, validate_mapping               *)
(***************************************************************************)
\* validate_account_code that tests the length alone
validate_account_code_by_length(account_code) == Len(account_code) >= 9

\* str.isdigit
IsDigit(s) == s # <<>> /\ \A i \in DOMAIN s : s[i] \in 0..9

\* the first component of validate_account_code's result
validate_account_code(account_code) ==
  IF Len(account_code) < 9 THEN FALSE
  ELSE /\ IsDigit(Slice(account_code, 0, 3))
       /\ IsDigit(Slice(account_code, 3, 5))
       /\ IsDigit(Slice(account_code, 5, 9))

\* account_mapping.get('gasb_category') and account_mapping.get('gasb_category') != 'unknown'
HasGasbCategory(account_mapping) ==
  Get(account_mapping.gasb_category, "") \notin {"", "unknown"}

ESSENTIAL_CATEGORIES ==
  << [group |-> "assets", categories |-> {"current_assets", "capital_assets"}],
     [group |-> "liabilities", categories |-> {"current_liabilities", "long_term_liabilities"}],
     [group |-> "net position",
      categories |-> {"net_investment_capital_assets", "restricted_net_position",
                      "unrestricted_net_position"}],
     [group |-> "revenues", categories |-> {"program_revenues", "general_revenues"}],
     [group |-> "expenses", categories |-> {"program_expenses", "general_expenses"}] >>

\* how many accounts of a class validate_mapping shows
SHOWN_ACCOUNTS == 10

\* a mapping in the order of mapping.items(): a sequence of [account_code, entry]
validate_mapping(items) ==
  LET is_valid(item) == validate_account_code(item.account_code)
      is_invalid(item) == ~is_valid(item)
      is_mapped(item) == is_valid(item) /\ HasGasbCategory(item.entry)
      is_unmapped(item) == is_valid(item) /\ ~HasGasbCategory(item.entry)
      codes(seq) == [i \in DOMAIN seq |-> seq[i].account_code]
      unmapped_accounts == codes(SelectSeq(items, is_unmapped))
      invalid_accounts == codes(SelectSeq(items, is_invalid))
      mapped_categories == {item.entry.gasb_category : item \in Range(SelectSeq(items, is_mapped))}
      missing(g) == g.categories \cap mapped_categories = {}
      warnings == [i \in DOMAIN SelectSeq(ESSENTIAL_CATEGORIES, missing) |->
                     SelectSeq(ESSENTIAL_CATEGORIES, missing)[i].group]
  IN  [ valid |-> Len(unmapped_accounts) = 0 /\ Len(invalid_accounts) = 0,
        unmapped_accounts |-> Slice(unmapped_accounts, 0, SHOWN_ACCOUNTS),
        invalid_accounts |-> Slice(invalid_accounts, 0, SHOWN_ACCOUNTS),
        total_unmapped |-> Len(unmapped_accounts),
        total_invalid |-> Len(invalid_accounts),
        mapped_categories |-> mapped_categories,
        warnings |-> warnings,
        has_essential_categories |-> Len(warnings) = 0 ]

(***************************************************************************)
(* simple_auth_endpoints.py: the account_mappings table                    *)
(***************************************************************************)
\* a write of None for a code
NoneData == [is_none |-> TRUE]

\* the row INSERT OR REPLACE writes for one code
StoredRow(user_id, account_code, mapping_data) ==
  [ user_id        |-> user_id,
    account_code   |-> account_code,
    description    |-> IF mapping_data.description = NoCode THEN <<>>
                       ELSE mapping_data.description,
    tea_category   |-> Get(mapping_data.tea_category, ""),
    gasb_category  |-> Get(mapping_data.gasb_category, ""),
    fund_category  |-> Get(mapping_data.fund_category, ""),
    statement_line |-> Get(mapping_data.statement_line, "XX"),
    notes          |-> Get(mapping_data.notes, "") ]

\* a table without UNIQUE constraint
NoConflict(old, new) == FALSE

\* UNIQUE(user_id, account_code)
Conflict(old, new) == old.user_id = new.user_id /\ old.account_code = new.account_code

\* INSERT OR REPLACE: the rows in conflict with the new one are deleted
InsertOrReplace(table, row) == {r \in table : ~Conflict(r, row)} \cup {row}

\* the writes of one call are of distinct codes: their order makes no difference
RECURSIVE SaveEach(_, _, _, _)
SaveEach(table, user_id, mappings, keys) ==
  IF keys = {} THEN table
  ELSE LET account_code == CHOOSE k \in keys : TRUE
           after ==
             IF mappings[account_code] = NoneData
             THEN {r \in table : ~(r.user_id = user_id /\ r.account_code = account_code)}
             ELSE InsertOrReplace(table,
                                  StoredRow(user_id, account_code, mappings[account_code]))
       IN  SaveEach(after, user_id, mappings, keys \ {account_code})

save_account_mappings(table, user_id, mappings) ==
  IF DOMAIN mappings = {} THEN {r \in table : r.user_id # user_id}
  ELSE SaveEach(table, user_id, mappings, DOMAIN mappings)

\* result['mappings'] of get_account_mappings(user_id, page=1) with a page_size above the
\* number of rows
get_account_mappings(table, user_id) ==
  LET results == {r \in table : r.user_id = user_id}
  IN  [k \in {r.account_code : r \in results} |->
         LET row == CHOOSE r \in results : r.account_code = k
         IN  [ account_code   |-> k,
               description    |-> row.description,
               tea_category   |-> row.tea_category,
               gasb_category  |-> row.gasb_category,
               fund_category  |-> row.fund_category,
               statement_line |-> IF row.statement_line = "" THEN "XX" ELSE row.statement_line,
               notes          |-> row.notes ]]

\* text order, as ORDER BY account_code
RECURSIVE LexLess(_, _)
LexLess(a, b) ==
  IF b = <<>> THEN FALSE
  ELSE IF a = <<>> THEN TRUE
  ELSE IF Head(a) # Head(b) THEN Head(a) < Head(b)
  ELSE LexLess(Tail(a), Tail(b))

RECURSIVE SortCodes(_)
SortCodes(set) ==
  IF set = {} THEN <<>>
  ELSE LET first == CHOOSE x \in set : \A y \in set \ {x} : LexLess(x, y)
       IN  <<first>> \o SortCodes(set \ {first})

\* mapping.items() of a mapping get_account_mappings returned
MappingItems(mapping_) ==
  LET keys == SortCodes(DOMAIN mapping_)
  IN  [i \in DOMAIN keys |-> [account_code |-> keys[i], entry |-> mapping_[keys[i]]]]

\* df['account_code'].unique()
UniqueCodes(df) == {df[i].account_code : i \in DOMAIN df}

(***************************************************************************)
(* main.py: the records of get_audit_trail and of export_audit_trail       *)
(***************************************************************************)
\* pandas' NaN, in a column of the merged frame
NaN == "NaN"

\* Series.fillna(value)
FillNa(x, value) == IF x = NaN THEN value ELSE x

\* the columns of mappings_df[expected_cols] the records use: mapping_method,
\* mapping_confidence and processing_notes are the '' the frame was completed with
MappingsColumns(entry) ==
  [ tea_category |-> entry.tea_category,
    gasb_category |-> entry.gasb_category,
    fund_category |-> entry.fund_category,
    mapping_method |-> "", mapping_confidence |-> "", processing_notes |-> "" ]

NaNColumns ==
  [ tea_category |-> NaN, gasb_category |-> NaN, fund_category |-> NaN,
    mapping_method |-> NaN, mapping_confidence |-> NaN, processing_notes |-> NaN ]

\* a merge that keeps the matched rows alone
InnerMerge(account_code, mappings) ==
  SetToSeq({MappingsColumns(mappings[k]) :
              k \in {k \in DOMAIN mappings : mappings[k].account_code = account_code}})

\* df_parsed.merge(mappings_df[expected_cols], on='account_code', how='left') on one row
\* of df_parsed: a row for every row of mappings_df of its account_code, or one row of
\* NaN when there is none
LeftMerge(account_code, mappings) ==
  LET matches == {k \in DOMAIN mappings : mappings[k].account_code = account_code}
  IN  IF matches = {} THEN <<NaNColumns>>
      ELSE SetToSeq({MappingsColumns(mappings[k]) : k \in matches})

AuditRecordOf(row, object_code, function_code, unmapped_accounts, c) ==
  LET info == get_statement_mapping_info(row.account_code, c.gasb_category, object_code,
                                         function_code)
      rollup == get_rollup_information(row.account_code, c.gasb_category, object_code)
  IN  [ account_code |-> row.account_code,
        current_year_actual |-> row.current_year_actual,
        function_code |-> function_code,
        object_code |-> object_code,
        unmapped_accounts |-> unmapped_accounts,
        tea_category |-> c.tea_category,
        gasb_category |-> c.gasb_category,
        fund_category |-> c.fund_category,
        statement_type |-> info.statement_type,
        statement_section |-> info.statement_section,
        statement_line_code |-> info.statement_line_code,
        statement_line_description |-> info.statement_line_description,
        mapping_method |-> c.mapping_method,
        mapping_confidence |-> c.mapping_confidence,
        processing_notes |-> c.processing_notes,
        rollup_applied |-> rollup.rollup_applied,
        rollup_description |-> rollup.rollup_description ]

\* the record of get_audit_trail of one row of the merged frame
AuditRecord(row, m) ==
  LET account_series == PadRight(row.account_code, ACCOUNT_CODE_WIDTH)
      unmapped_accounts == m.tea_category = NaN \/ m.tea_category = ""
  IN  AuditRecordOf(row, Slice(account_series, 5, 9), Slice(account_series, 3, 5),
                    unmapped_accounts,
                    [ tea_category |-> FillNa(m.tea_category, "Unmapped"),
                      gasb_category |-> FillNa(m.gasb_category, "Unmapped"),
                      fund_category |-> FillNa(m.fund_category, "Unmapped"),
                      mapping_method |->
                        FillNa(m.mapping_method,
                               IF unmapped_accounts THEN "unmapped" ELSE "auto_mapped"),
                      mapping_confidence |->
                        FillNa(m.mapping_confidence,
                               IF unmapped_accounts THEN "none" ELSE "medium"),
                      processing_notes |->
                        FillNa(m.processing_notes,
                               IF unmapped_accounts THEN "Account not mapped" ELSE "") ])

\* the records of get_audit_trail of one row of the trial balance
AuditRecords(row, mappings) ==
  LET merged == LeftMerge(row.account_code, mappings)
  IN  [i \in DOMAIN merged |-> AuditRecord(row, merged[i])]

\* one record of export_audit_trail; a mapping the store returned has no mapping_method,
\* mapping_confidence or processing_notes
ExportRecord(row, mappings) ==
  LET account_code == row.account_code
      is_mapped == account_code \in DOMAIN mappings
  IN  AuditRecordOf(row,
                    IF Len(account_code) >= 9 THEN Slice(account_code, 5, 9) ELSE S(0, 4),
                    IF Len(account_code) >= 5 THEN Slice(account_code, 3, 5) ELSE S(0, 2),
                    ~is_mapped,
                    IF is_mapped
                    THEN [ tea_category |-> Get(mappings[account_code].tea_category, "Unmapped"),
                           gasb_category |-> Get(mappings[account_code].gasb_category, "Unmapped"),
                           fund_category |-> Get(mappings[account_code].fund_category, "Unmapped"),
                           mapping_method |-> "auto_mapped",
                           mapping_confidence |-> "medium",
                           processing_notes |-> "" ]
                    ELSE [ tea_category |-> "Unmapped", gasb_category |-> "Unmapped",
                           fund_category |-> "Unmapped", mapping_method |-> "unmapped",
                           mapping_confidence |-> "none",
                           processing_notes |-> "Account not mapped" ])

\* the loop of export_audit_trail appends one record for a row
ExportRecords(row, mappings) == <<ExportRecord(row, mappings)>>

RECURSIVE Flatten(_)
Flatten(seqs) == IF seqs = <<>> THEN <<>> ELSE Head(seqs) \o Flatten(Tail(seqs))

\* the response of get_audit_trail without its file_info
AuditResponse(audit_data) ==
  [ audit_data |-> audit_data,
    total_records |-> Len(audit_data),
    mapped_records |-> Len(SelectSeq(audit_data, LAMBDA r : ~r.unmapped_accounts)),
    unmapped_records |-> Len(SelectSeq(audit_data, LAMBDA r : r.unmapped_accounts)) ]

(***************************************************************************)
(* simple_auth_endpoints.py: the financial_statements and audit_trails tables *)
(***************************************************************************)
\* neither table has a UNIQUE constraint beside its id: INSERT OR REPLACE adds a row
save_financial_statements(table, user_id, statement_type, statement_data, created_at) ==
  Append(table, [ user_id |-> user_id, statement_type |-> statement_type,
                  statement_data |-> statement_data, created_at |-> created_at ])

save_audit_trail(table, user_id, audit_data, total_records, created_at) ==
  Append(table, [ user_id |-> user_id, audit_data |-> audit_data,
                  total_records |-> total_records, created_at |-> created_at ])

\* a DELETE without its WHERE
clear_audit_trail_of_every_user(table, user_id) == <<>>

clear_audit_trail(table, user_id) == SelectSeq(table, LAMBDA r : r.user_id # user_id)

\* the rows ORDER BY created_at DESC LIMIT 1 may return: SQL leaves the order of rows of
\* the same second open
Latest(selected) ==
  {r \in Range(selected) : \A q \in Range(selected) : q.created_at <= r.created_at}

\* what get_financial_statements may return; the empty set stands for None
get_financial_statements(table, user_id, statement_type) ==
  Latest(SelectSeq(table, LAMBDA r : r.user_id = user_id /\ r.statement_type = statement_type))

\* what the store's get_audit_trail may return; the empty set stands for None
get_stored_audit_trail(table, user_id) ==
  Latest(SelectSeq(table, LAMBDA r : r.user_id = user_id))

(***************************************************************************)
(* main.py: the handlers, on the store                                     *)
(***************************************************************************)
Response(fn, user_id, raised, result) ==
  [fn |-> fn, user_id |-> user_id, raised |-> raised, result |-> result]

\* the trial balances uploaded before the run
TB1 ==
  << [account_code |-> Code(199, 11, 1110), current_year_actual |-> 5000],
     [account_code |-> Code(420, 41, 6100), current_year_actual |-> 5000],
     [account_code |-> Code(199, 11, 1110), current_year_actual |-> -3] >>

TB2 == << [account_code |-> Code(199, 0, 1599), current_year_actual |-> 5000] >>

TrialBalance == [u \in Users |-> IF u = "u1" THEN TB1 ELSE TB2]

\* the bodies of POST /api/mapping: of the first user an edit, an entry of few keys, a
\* deletion and the empty body; of the second an edit
MappingBodies(user_id) ==
  IF user_id = "u1"
  THEN { <<>>,
         [k \in {Code(199, 11, 1110)} |-> EditedEntry(k)],
         [k \in {Code(420, 41, 6100)} |-> BareEntry(k)],
         [k \in {Code(199, 11, 1110)} |-> NoneData] }
  ELSE { [k \in {Code(199, 0, 1599)} |-> EditedEntry(k)] }

MaxClock == 1

MaxStatements == 2

MaxAudits == 2

InitStore ==
  /\ rows = <<>>
  /\ mapping = <<>>
  /\ arg = <<>>
  /\ out = NoResult
  /\ db = [EmptyDb EXCEPT !.trial_balance_data = TrialBalance]
  /\ now = 0

\* a second passes
Tick ==
  /\ now < MaxClock
  /\ now' = now + 1
  /\ UNCHANGED <<rows, mapping, arg, out, db>>

\* the files of POST /api/upload: one that allowed_file or parse_trial_balance refuses, and
\* the user's trial balance
Files(user_id) ==
  { [parsed |-> FALSE, df |-> <<>>], [parsed |-> TRUE, df |-> TrialBalance[user_id]] }

\* save_trial_balance_data: the user's row deleted, the new one inserted
save_trial_balance_data(table, user_id, df) == [table EXCEPT ![user_id] = df]

upload_file(user_id, file) ==
  /\ IF ~file.parsed
     THEN /\ out' = Response("upload_file", user_id, "400", <<>>)
          /\ db' = db
     ELSE /\ db' = [db EXCEPT !.trial_balance_data =
                      save_trial_balance_data(@, user_id, file.df)]
          /\ out' = Response("upload_file", user_id, "", Len(file.df))
  /\ UNCHANGED <<rows, mapping, arg, now>>

auto_map_accounts(user_id) ==
  LET data == db.trial_balance_data[user_id]
      default_mapping == create_default_mapping(UniqueCodes(data))
      saved == save_account_mappings(db.account_mappings, user_id, default_mapping)
  IN  /\ IF data = NoData
         THEN /\ out' = Response("auto_map_accounts", user_id, "400", <<>>)
              /\ db' = db
         ELSE /\ db' = [db EXCEPT !.account_mappings = saved]
              /\ out' = Response("auto_map_accounts", user_id, "",
                                  get_account_mappings(saved, user_id))
      /\ UNCHANGED <<rows, mapping, arg, now>>

save_mapping(user_id, body) ==
  LET saved == save_account_mappings(db.account_mappings, user_id, body)
  IN  /\ db' = [db EXCEPT !.account_mappings = saved]
      /\ out' = Response("save_mapping", user_id, "",
                          validate_mapping(MappingItems(get_account_mappings(saved, user_id))))
      /\ arg' = body
      /\ UNCHANGED <<rows, mapping, now>>

delete_all_mappings(user_id) ==
  /\ db' = [db EXCEPT
              !.account_mappings = save_account_mappings(@, user_id, <<>>),
              !.audit_trails = clear_audit_trail(@, user_id)]
  /\ out' = Response("delete_all_mappings", user_id, "", <<>>)
  /\ UNCHANGED <<rows, mapping, arg, now>>

\* generate_statements without the test of the mappings
generate_statements_of_any_mappings(user_id) ==
  LET data == db.trial_balance_data[user_id]
      mappings == get_account_mappings(db.account_mappings, user_id)
      statements ==
        [ government_wide_net_position |->
            generate_government_wide_net_position(data, mappings),
          government_wide_activities |->
            generate_government_wide_activities(data, mappings),
          governmental_funds_balance |->
            generate_governmental_funds_balance(data, mappings),
          governmental_funds_revenues_expenditures |->
            generate_governmental_funds_revenues_expenditures(data, mappings) ]
  IN  /\ Len(db.financial_statements) < MaxStatements
      /\ IF data = NoData
         THEN /\ out' = Response("generate_statements", user_id, "400", <<>>)
              /\ db' = db
         ELSE /\ db' = [db EXCEPT !.financial_statements =
                          save_financial_statements(@, user_id, "combined", statements, now)]
              /\ out' = Response("generate_statements", user_id, "", statements)
      /\ UNCHANGED <<rows, mapping, arg, now>>

generate_statements(user_id) ==
  LET data == db.trial_balance_data[user_id]
      mappings == get_account_mappings(db.account_mappings, user_id)
      statements ==
        [ government_wide_net_position |->
            generate_government_wide_net_position(data, mappings),
          government_wide_activities |->
            generate_government_wide_activities(data, mappings),
          governmental_funds_balance |->
            generate_governmental_funds_balance(data, mappings),
          governmental_funds_revenues_expenditures |->
            generate_governmental_funds_revenues_expenditures(data, mappings) ]
  IN  /\ Len(db.financial_statements) < MaxStatements
      /\ IF data = NoData \/ DOMAIN mappings = {}
         THEN /\ out' = Response("generate_statements", user_id, "400", <<>>)
              /\ db' = db
         ELSE IF \/ statements.governmental_funds_balance.raised # ""
                 \/ statements.governmental_funds_revenues_expenditures.raised # ""
         THEN /\ out' = Response("generate_statements", user_id, "500", <<>>)
              /\ db' = db
         ELSE /\ db' = [db EXCEPT !.financial_statements =
                          save_financial_statements(@, user_id, "combined", statements, now)]
              /\ out' = Response("generate_statements", user_id, "", statements)
      /\ UNCHANGED <<rows, mapping, arg, now>>

\* what get_audit_trail and export_audit_trail do with the records they built: the store
\* and the response after the call
AuditTrailHandler(fn, user_id, audit_data) ==
  LET data == db.trial_balance_data[user_id]
      mappings == get_account_mappings(db.account_mappings, user_id)
  IN  IF data = NoData \/ DOMAIN mappings = {}
      THEN [db |-> db, out |-> Response(fn, user_id, "400", <<>>)]
      ELSE [db |-> [db EXCEPT !.audit_trails =
                      save_audit_trail(@, user_id, audit_data, Len(audit_data), now)],
            out |-> Response(fn, user_id, "", AuditResponse(audit_data))]

get_audit_trail(user_id) ==
  LET data == db.trial_balance_data[user_id]
      mappings == get_account_mappings(db.account_mappings, user_id)
      audit_data == Flatten([i \in DOMAIN data |-> AuditRecords(data[i], mappings)])
      after == AuditTrailHandler("get_audit_trail", user_id, audit_data)
  IN  /\ Len(db.audit_trails) < MaxAudits
      /\ db' = after.db
      /\ out' = after.out
      /\ UNCHANGED <<rows, mapping, arg, now>>

\* export_audit_trail builds its records in a loop of its own
export_audit_trail(user_id) ==
  LET data == db.trial_balance_data[user_id]
      mappings == get_account_mappings(db.account_mappings, user_id)
      audit_data == Flatten([i \in DOMAIN data |-> ExportRecords(data[i], mappings)])
      after == AuditTrailHandler("export_audit_trail", user_id, audit_data)
  IN  /\ Len(db.audit_trails) < MaxAudits
      /\ db' = after.db
      /\ out' = after.out
      /\ UNCHANGED <<rows, mapping, arg, now>>

\* export_excel as far as the store goes: it reads the user's 'combined' statements
export_excel(user_id) ==
  LET found == get_financial_statements(db.financial_statements, user_id, "combined")
  IN  /\ IF found = {}
         THEN out' = Response("export_excel", user_id, "400", <<>>)
         ELSE \E r \in found : out' = Response("export_excel", user_id, "", r.statement_data)
      /\ UNCHANGED <<rows, mapping, arg, db, now>>

AutoMap == \E u \in Users : auto_map_accounts(u)

SaveMapping == \E u \in Users : \E body \in MappingBodies(u) : save_mapping(u, body)

DeleteAllMappings == \E u \in Users : delete_all_mappings(u)

GenerateStatements == \E u \in Users : generate_statements(u)

GetAuditTrail == \E u \in Users : get_audit_trail(u)

ExportAuditTrail == \E u \in Users : export_audit_trail(u)

ExportExcel == \E u \in Users : export_excel(u)

\* the mappings and the audit trails they are the source of
NextStore == AutoMap \/ SaveMapping \/ DeleteAllMappings \/ GetAuditTrail

SpecStore == InitStore /\ [][NextStore]_vars

\* the statements of default mappings, generated again and again
NextStatements ==
  Tick \/ AutoMap \/ DeleteAllMappings \/ GenerateStatements \/ ExportExcel

SpecStatements == InitStore /\ [][NextStatements]_vars

\* the store from init_db on: uploads, mapping writes and generations in any order
InitUpload ==
  /\ rows = <<>>
  /\ mapping = <<>>
  /\ arg = <<>>
  /\ out = NoResult
  /\ db = EmptyDb
  /\ now = 0

Upload == \E u \in Users : \E file \in Files(u) : upload_file(u, file)

NextUpload ==
  Upload \/ AutoMap \/ SaveMapping \/ DeleteAllMappings \/ GenerateStatements

SpecUpload == InitUpload /\ [][NextUpload]_vars

\* the two audit trails of one user, over trial balances of up to MaxAuditRows rows, one of
\* a code too short for its segments, and mappings as the store returns them
MaxAuditRows == 2

AuditRows ==
  [ account_code : {Code(199, 11, 1110), Code(211, 0, 2300), Code(420, 41, 6100),
                    SubSeq(Code(199, 11, 1110), 1, 7)},
    current_year_actual : Amounts ]

AuditMappings ==
  { [k \in K |-> entry[k]] :
      K \in SUBSET {Code(199, 11, 1110), Code(211, 0, 2300), Code(420, 41, 6100)},
      entry \in { [k \in Codes |-> DefaultEntry(k)], [k \in Codes |-> BareEntry(k)] } }

InitAudit ==
  /\ rows = <<>>
  /\ mapping = <<>>
  /\ arg = <<>>
  /\ out = NoResult
  /\ now = 0
  /\ \E data \in SeqsUpTo(AuditRows, MaxAuditRows) \cup {NoData}, body \in AuditMappings :
       db = [EmptyDb EXCEPT
               !.trial_balance_data["u1"] = data,
               !.account_mappings = save_account_mappings(@, "u1", body)]

NextAudit == GetAuditTrail \/ ExportAuditTrail

SpecAudit == InitAudit /\ [][NextAudit]_vars

(***************************************************************************)
(* validate_mapping over mappings of valid, invalid and uncategorised codes *)
(***************************************************************************)
\* the i-th key of a mapping, by the kind of its code
ItemCode(kind, i) ==
  LET code == Code(199, 11, 1000 + i)
  IN  CASE kind = "short" -> SubSeq(code, 1, 8)
        [] kind = "letter" -> [code EXCEPT ![7] = CHR_M]
        [] kind = "letter_after" -> [code EXCEPT ![12] = CHR_M]
        [] OTHER -> code

\* a kind of code with the gasb_category of its entry
ItemKinds ==
  { [code |-> "short", gasb_category |-> "current_assets"],
    [code |-> "letter", gasb_category |-> ""],
    [code |-> "digits", gasb_category |-> ""],
    [code |-> "digits", gasb_category |-> "unknown"],
    [code |-> "digits", gasb_category |-> NoKey],
    [code |-> "digits", gasb_category |-> "current_assets"],
    [code |-> "letter_after", gasb_category |-> "general_revenues"] }

Item(kind, i) ==
  [ account_code |-> ItemCode(kind.code, i),
    entry |-> [DefaultEntry(ItemCode(kind.code, i)) EXCEPT !.gasb_category = kind.gasb_category] ]

\* every mapping of up to MaxItems entries, and mappings of up to MaxEntries entries of one
\* kind or of two kinds in turn
MaxItems == 3

MaxEntries == 12

ValidateInputs ==
  { [i \in DOMAIN kinds |-> Item(kinds[i], i)] : kinds \in SeqsUpTo(ItemKinds, MaxItems) }
    \cup { [i \in 1..n |-> Item(IF i % 2 = 0 THEN a ELSE b, i)] :
             n \in (MaxItems + 1)..MaxEntries, a \in ItemKinds, b \in ItemKinds }

InitValidate ==
  /\ arg \in ValidateInputs
  /\ rows = <<>>
  /\ mapping = <<>>
  /\ out = NoResult
  /\ db = EmptyDb
  /\ now = 0

ValidateMapping ==
  /\ out = NoResult
  /\ out' = [fn |-> "validate_mapping", result |-> validate_mapping(arg)]
  /\ UNCHANGED <<rows, mapping, arg, db, now>>

SpecValidate == InitValidate /\ [][ValidateMapping]_vars

(***************************************************************************)
(* Properties                                                              *)
(***************************************************************************)
IsNetPosition == out.fn = "generate_government_wide_net_position"
IsActivities == out.fn = "generate_government_wide_activities"
IsFundsBalance == out.fn = "generate_governmental_funds_balance"
IsFundsRevExp == out.fn = "generate_governmental_funds_revenues_expenditures"

\* the sum of current_year_actual over the rows
RECURSIVE SumAmounts(_)
SumAmounts(df) ==
  IF df = <<>> THEN 0 ELSE Head(df).current_year_actual + SumAmounts(Tail(df))

Mapped(row) == row.account_code \in DOMAIN mapping

EveryRowMapped == \A i \in DOMAIN rows : Mapped(rows[i])

\* the rows whose account_code has an entry in the mapping
MappedRows == SelectSeq(rows, Mapped)

\* chars 5:9 of the code begin with digit d
ObjectBegins(row, d) == StartsWith(Slice(row.account_code, 5, 9), <<d>>)

RowsBeginning(digits) ==
  SelectSeq(rows, LAMBDA row : \E d \in digits : ObjectBegins(row, d))

\* C1: when every row's entry has gasb_category current_assets or capital_assets,
\* assets.total_assets of the net-position statement is the sum of the rows'
\* current_year_actual
C1_AssetsConserved ==
  (IsNetPosition
     /\ \A i \in DOMAIN rows :
          /\ Mapped(rows[i])
          /\ mapping[rows[i].account_code].gasb_category
               \in {"current_assets", "capital_assets"})
    => out.result.amount["assets.total_assets"] = SumAmounts(rows)

\* C2: the leaves of the net-position statement add up to the sum of current_year_actual
\* over the mapped rows whose object code begins with 1, 2 or 3: each such row is in
\* exactly one leaf
C2_EveryRowInOneLeaf ==
  IsNetPosition
    => SumLines(out.result.amount, SetToSeq(NP_LEAVES))
         = SumAmounts(SelectSeq(RowsBeginning({1, 2, 3}), Mapped))

\* C3: the rows without entry in the mapping contribute nothing: each of the four
\* statements is the statement of the trial balance without those rows
C3_UnmappedContributeNothing ==
  /\ IsNetPosition
       => out.result = generate_government_wide_net_position(MappedRows, mapping)
  /\ IsActivities
       => out.result = generate_government_wide_activities(MappedRows, mapping)
  /\ IsFundsBalance
       => out.result = generate_governmental_funds_balance(MappedRows, mapping)
  /\ IsFundsRevExp
       => out.result = generate_governmental_funds_revenues_expenditures(MappedRows, mapping)

\* C4: mapped rows in the 1xxx, 2xxx and 3xxx ranges whose amounts satisfy
\* sum(1xxx) = sum(2xxx) + sum(3xxx) give a balanced net-position statement
C4_BalancedWhenEngineered ==
  (IsNetPosition /\ EveryRowMapped
     /\ \A i \in DOMAIN rows : \E d \in {1, 2, 3} : ObjectBegins(rows[i], d)
     /\ SumAmounts(RowsBeginning({1})) = SumAmounts(RowsBeginning({2, 3})))
    => out.result.balanced

\* what C5 enumerates
TeaNames == {TEA_OBJECT_CATEGORIES[d] : d \in DOMAIN TEA_OBJECT_CATEGORIES}
GasbKeys == {GASB_CATEGORIES[i].category : i \in DOMAIN GASB_CATEGORIES}
FundKeysOfTable == {FUND_CATEGORIES[i].category : i \in DOMAIN FUND_CATEGORIES}

\* C5: on an account code of 9 or more digits the classifier returns an enumerated name:
\* a TEA category name or 'Unknown', a key of GASB_CATEGORIES or 'unknown', a key of
\* FUND_CATEGORIES or 'other_governmental_funds'
C5_ClassifierTotal ==
  Len(arg) >= 9 =>
    /\ out.fn = "get_tea_category" => out.result \in TeaNames \cup {"Unknown"}
    /\ out.fn = "get_gasb_category" => out.result \in GasbKeys \cup {"unknown"}
    /\ out.fn = "get_fund_category"
         => out.result \in FundKeysOfTable \cup {"other_governmental_funds"}

\* the classifier has answered from a fallback rule: an object code in no tea_codes list,
\* or a fund code in no fund_codes list
C5_Witness ==
  /\ Len(arg) >= 9
  /\ \/ /\ out.fn = "get_gasb_category"
        /\ GasbExactMatch(Slice(arg, 5, 9)) = 0
        /\ out.result = "capital_assets"
     \/ /\ out.fn = "get_fund_category"
        /\ out.result = "other_governmental_funds"

\* how often the row's amount is added to line p of a funds statement
CountPath(calls, p) == Cardinality({i \in DOMAIN calls : calls[i].path = p})

FundsCalls(row) ==
  LET oc == Slice(row.account_code, 5, 9)
      fc == Slice(row.account_code, 3, 5)
  IN  IF IsFundsBalance THEN FundsBalanceCalls(oc) ELSE FundsRevExpCalls(oc, fc)

\* the amount the rows in `which` add to line p
RECURSIVE SumInto(_, _, _)
SumInto(df, which(_), p) ==
  IF df = <<>> THEN 0
  ELSE (IF which(Head(df)) THEN Head(df).current_year_actual * CountPath(FundsCalls(Head(df)), p)
        ELSE 0)
       + SumInto(Tail(df), which, p)

EntryIsGeneralFund(row) == mapping[row.account_code].fund_category = "general_fund"

EntryIsOtherFund(row) == ~EntryIsGeneralFund(row)

\* C6: in both funds statements, on a trial balance whose rows all have an entry, the
\* general_fund column of every line holds the amounts of the rows whose entry has
\* fund_category 'general_fund' and the non_major_funds column the amounts of all the
\* other rows: no amount is in both
C6_FundPartition ==
  ((IsFundsBalance \/ IsFundsRevExp) /\ EveryRowMapped)
    => /\ out.result.raised = ""
       /\ \A p \in (IF IsFundsBalance THEN FB_LEAVES ELSE RE_LEAVES) :
            /\ out.result.amount[p]["general_fund"] = SumInto(rows, EntryIsGeneralFund, p)
            /\ out.result.amount[p]["non_major_funds"] = SumInto(rows, EntryIsOtherFund, p)

\* a funds balance sheet of two mapped rows, one of a general-fund entry and one of an
\* entry of another fund_category, each with its amount in a line
C6_Witness ==
  /\ IsFundsBalance /\ EveryRowMapped /\ Len(rows) = 2
  /\ EntryIsGeneralFund(rows[1]) /\ EntryIsOtherFund(rows[2])
  /\ mapping[rows[2].account_code].fund_category = "special_revenue_funds"
  /\ \E p, q \in FB_LEAVES :
       /\ out.result.amount[p]["general_fund"] = rows[1].current_year_actual
       /\ out.result.amount[q]["non_major_funds"] = rows[2].current_year_actual

\* every leaf of the statement out holds is 0
AllLeavesZero ==
  /\ IsNetPosition => \A p \in NP_LEAVES : out.result.amount[p] = 0
  /\ IsActivities
       => /\ \A k \in Range(ACT_PROGRAMS) :
               /\ out.result.programs[k].expenses = 0
               /\ out.result.programs[k].charges_for_services = 0
               /\ out.result.programs[k].operating_grants = 0
          /\ \A k \in Range(ACT_GENERAL_REVENUES) : out.result.general_revenues[k] = 0
  /\ IsFundsBalance => \A p \in FB_LEAVES : out.result.amount[p] = ZeroFunds
  /\ IsFundsRevExp => \A p \in RE_LEAVES : out.result.amount[p] = ZeroFunds

\* C7: with an empty trial balance or an empty mapping, every leaf of each of the four
\* statements is 0
C7_EmptyInputsAllZero ==
  (rows = <<>> \/ DOMAIN mapping = {}) => AllLeavesZero

\* the scenario of C8: one row of 5000 with object code 1110, whose entry has
\* gasb_category 'current_assets' and fund_category 'general_fund'
C8_Scenario ==
  /\ Len(rows) = 1
  /\ rows[1].current_year_actual = 5000
  /\ Len(rows[1].account_code) >= 9
  /\ Slice(rows[1].account_code, 5, 9) = S(1110, 4)
  /\ Mapped(rows[1])
  /\ mapping[rows[1].account_code].gasb_category = "current_assets"
  /\ mapping[rows[1].account_code].fund_category = "general_fund"

\* C8: in that scenario the net-position statement has cash_and_cash_equivalents = 5000
\* and total_assets = 5000, and the funds balance sheet has cash_and_equivalents
\* general_fund = 5000 and non_major_funds = 0
C8_EndToEnd ==
  C8_Scenario =>
    /\ IsNetPosition
         => /\ out.result.amount["assets.cash_and_cash_equivalents"] = 5000
            /\ out.result.amount["assets.total_assets"] = 5000
    /\ IsFundsBalance
         => /\ out.result.raised = ""
            /\ out.result.amount["assets.cash_and_equivalents"]["general_fund"] = 5000
            /\ out.result.amount["assets.cash_and_equivalents"]["non_major_funds"] = 0

\* the funds balance sheet of the scenario, the entry carrying the two categories alone
C8_Witness ==
  /\ C8_Scenario /\ IsFundsBalance
  /\ mapping[rows[1].account_code].account_code = NoCode
  /\ DOMAIN mapping = {rows[1].account_code}

\* the rows without row i
RemoveAt(df, i) == SubSeq(df, 1, i - 1) \o SubSeq(df, i + 1, Len(df))

\* object codes 15xx that have no line of their own
IsOther15(object_code) ==
  /\ Len(object_code) = 4
  /\ StartsWith(object_code, S(15, 2))
  /\ object_code \notin {S(1510, 4), S(1520, 4), S(1530, 4), S(1580, 4)}

\* C9: in the net-position statement a mapped row with such an object code adds its amount
\* to assets.capital_assets.buildings_improvements and to no other leaf: without the row,
\* that leaf is lower by the amount and every other leaf is the same
C9_Other15ToBuildings ==
  IsNetPosition =>
    \A i \in DOMAIN rows :
      (Mapped(rows[i]) /\ IsOther15(Slice(rows[i].account_code, 5, 9)))
        => LET without ==
                 generate_government_wide_net_position(RemoveAt(rows, i), mapping).amount
           IN  \A p \in NP_LEAVES :
                 out.result.amount[p]
                   = without[p]
                       + (IF p = "assets.capital_assets.buildings_improvements"
                          THEN rows[i].current_year_actual ELSE 0)

\* the net-position statement of a row with object code 1599
C9_Witness ==
  /\ IsNetPosition
  /\ \E i \in DOMAIN rows :
       Mapped(rows[i]) /\ Slice(rows[i].account_code, 5, 9) = S(1599, 4)
  /\ out.result.amount["assets.capital_assets.buildings_improvements"] = 5000

\* the object codes C10 lists
C10_RolledUp(oc) ==
  \/ StartsWith(oc, S(11, 2))
  \/ StartsWith(oc, S(12, 2)) /\ oc \notin {S(1225, 4), S(1240, 4), S(1267, 4)}
  \/ StartsWith(oc, S(15, 2)) /\ oc \notin {S(1510, 4), S(1520, 4), S(1530, 4), S(1580, 4)}
  \/ StartsWith(oc, S(21, 2))
       /\ oc \notin {S(2110, 4), S(2140, 4), S(2165, 4), S(2180, 4), S(2300, 4)}
  \/ StartsWith(oc, S(25, 2)) /\ oc \notin {S(2501, 4), S(2502, 4), S(2540, 4), S(2545, 4)}
  \/ StartsWith(oc, S(38, 2)) /\ oc \notin {S(3820, 4), S(3850, 4)}

\* C10: for a mapped row get_rollup_information returns rollup_applied = true exactly for
\* the object codes listed; 1199 gives true with the description of Cash and Cash
\* Equivalents, and 1225 gives false
C10_RollupFlag ==
  (out.fn = "get_rollup_information" /\ out.gasb_category # "Unmapped")
    => LET oc == AuditObjectCode(arg)
       IN  /\ out.result.rollup_applied <=> C10_RolledUp(oc)
           /\ oc = S(1199, 4)
                => /\ out.result.rollup_applied
                   /\ out.result.rollup_description = "Rolled up into Cash and Cash Equivalents"
           /\ oc = S(1225, 4) => ~out.result.rollup_applied

\* the rollup of a mapped row with object code 1199
C10_Witness ==
  /\ out.fn = "get_rollup_information" /\ out.gasb_category # "Unmapped"
  /\ AuditObjectCode(arg) = S(1199, 4)
  /\ out.result.rollup_applied

\* the classes of C13
C13_Invalid(item) ==
  \/ Len(item.account_code) < 9
  \/ \E i \in 1..9 : item.account_code[i] \notin 0..9

C13_Unmapped(item) ==
  ~C13_Invalid(item) /\ item.entry.gasb_category \in {"", "unknown", NoKey}

C13_Mapped(item) == ~C13_Invalid(item) /\ ~C13_Unmapped(item)

C13_Codes(seq) == [i \in DOMAIN seq |-> seq[i].account_code]

\* C13: validate_mapping splits the entries into invalid (code shorter than 9, or a
\* non-digit in its first 9 characters), unmapped (valid, gasb_category empty or 'unknown')
\* and mapped (the rest): total_invalid and total_unmapped count their classes and with the
\* mapped entries add up to the number of entries; valid is true iff both totals are 0;
\* mapped_categories are the categories of the mapped entries alone; unmapped_accounts and
\* invalid_accounts are the first 10 codes of their class, in the order of the mapping
C13_ValidatePartition ==
  out.fn = "validate_mapping" =>
    LET r == out.result
        invalid == SelectSeq(arg, C13_Invalid)
        unmapped == SelectSeq(arg, C13_Unmapped)
        mapped == SelectSeq(arg, C13_Mapped)
    IN  /\ r.total_invalid = Len(invalid)
        /\ r.total_unmapped = Len(unmapped)
        /\ r.total_invalid + r.total_unmapped + Len(mapped) = Len(arg)
        /\ r.valid <=> (r.total_invalid = 0 /\ r.total_unmapped = 0)
        /\ r.mapped_categories = {item.entry.gasb_category : item \in Range(mapped)}
        /\ r.invalid_accounts = SubSeq(C13_Codes(invalid), 1, Min(10, r.total_invalid))
        /\ r.unmapped_accounts = SubSeq(C13_Codes(unmapped), 1, Min(10, r.total_unmapped))

\* a mapping of more than 10 invalid codes, short ones and ones with a letter, of which
\* 10 are shown
C13_Witness ==
  /\ out.fn = "validate_mapping"
  /\ out.result.total_invalid > 10
  /\ Len(out.result.invalid_accounts) = 10
  /\ \E i, j \in 1..10 : /\ Len(out.result.invalid_accounts[i]) < 9
                         /\ Len(out.result.invalid_accounts[j]) >= 9

C12_NoGeneratorRaises ==
  (IsFundsBalance \/ IsFundsRevExp) => out.result.raised = ""

\* the stored entry a write of an entry leaves: the keys it lacks at their defaults
C16_Written(user_id, account_code, mapping_data) ==
  [ user_id        |-> user_id,
    account_code   |-> account_code,
    description    |-> IF mapping_data.description = NoCode THEN <<>>
                       ELSE mapping_data.description,
    tea_category   |-> IF mapping_data.tea_category = NoKey THEN ""
                       ELSE mapping_data.tea_category,
    gasb_category  |-> IF mapping_data.gasb_category = NoKey THEN ""
                       ELSE mapping_data.gasb_category,
    fund_category  |-> IF mapping_data.fund_category = NoKey THEN ""
                       ELSE mapping_data.fund_category,
    statement_line |-> IF mapping_data.statement_line = NoKey THEN "XX"
                       ELSE mapping_data.statement_line,
    notes          |-> IF mapping_data.notes = NoKey THEN "" ELSE mapping_data.notes ]

\* C16: after a call of save_account_mappings the store holds at most one entry for a
\* user and an account code; the entry of a code written is the one just written, a code
\* written as None has no entry, and an empty dictionary leaves the user no entry; the
\* entries of the codes not written, and those of the other users, are what they were
C16_LastWriteWins ==
  [][ out'.fn = "save_mapping" =>
        LET user_id == out'.user_id
            body == arg'
            before == db.account_mappings
            after == db'.account_mappings
        IN  /\ \A r1, r2 \in after :
                 (r1.user_id = r2.user_id /\ r1.account_code = r2.account_code) => r1 = r2
            /\ IF DOMAIN body = {}
               THEN after = {r \in before : r.user_id # user_id}
               ELSE /\ \A k \in DOMAIN body :
                         IF body[k] = NoneData
                         THEN ~\E r \in after : r.user_id = user_id /\ r.account_code = k
                         ELSE C16_Written(user_id, k, body[k]) \in after
                    /\ \A r \in before \cup after :
                         (r.user_id # user_id \/ r.account_code \notin DOMAIN body)
                           => (r \in before <=> r \in after) ]_vars

\* the first user has the entry of one code deleted while another of their codes, and a
\* code of the second user, have entries
C16_Witness ==
  /\ out.fn = "save_mapping"
  /\ out.user_id = "u1"
  /\ \E r \in db.account_mappings : r.user_id = "u2"
  /\ \E r \in db.account_mappings : r.user_id = "u1" /\ r.account_code \notin DOMAIN arg
  /\ \E k \in DOMAIN arg : arg[k] = NoneData

\* C17: when delete_all_mappings has completed for a user the store holds no mapping and
\* no audit trail of that user, and the mappings and audit trails of the other users are
\* what they were; a user without stored audit trail has one again only by a call that
\* generates it
C17_DeleteAllMappings ==
  [][ /\ out'.fn = "delete_all_mappings" =>
           LET user_id == out'.user_id
           IN  /\ ~\E r \in db'.account_mappings : r.user_id = user_id
               /\ DOMAIN get_account_mappings(db'.account_mappings, user_id) = {}
               /\ \A i \in DOMAIN db'.audit_trails : db'.audit_trails[i].user_id # user_id
               /\ get_stored_audit_trail(db'.audit_trails, user_id) = {}
               /\ {r \in db'.account_mappings : r.user_id # user_id}
                    = {r \in db.account_mappings : r.user_id # user_id}
               /\ SelectSeq(db'.audit_trails, LAMBDA r : r.user_id # user_id)
                    = SelectSeq(db.audit_trails, LAMBDA r : r.user_id # user_id)
      /\ \A user_id \in Users :
           (/\ get_stored_audit_trail(db.audit_trails, user_id) = {}
            /\ get_stored_audit_trail(db'.audit_trails, user_id) # {})
             => /\ out'.fn \in {"get_audit_trail", "export_audit_trail"}
                /\ out'.user_id = user_id
                /\ out'.raised = "" ]_vars

\* the mappings of the first user are deleted while the store holds mappings and an audit
\* trail of the second
C17_Witness ==
  /\ out.fn = "delete_all_mappings"
  /\ out.user_id = "u1"
  /\ \E r \in db.account_mappings : r.user_id = "u2"
  /\ get_stored_audit_trail(db.audit_trails, "u2") # {}
  /\ get_stored_audit_trail(db.audit_trails, "u1") = {}

\* C18: after any number of generations the store holds at most one statement record for
\* a user and a statement type, a generation replacing the record before it, and
\* get_financial_statements returns the statements generated last
C18_OneStatementRecord ==
  /\ \A i, k \in DOMAIN db.financial_statements :
       (/\ db.financial_statements[i].user_id = db.financial_statements[k].user_id
        /\ db.financial_statements[i].statement_type = db.financial_statements[k].statement_type)
         => i = k
  /\ (out.fn = "generate_statements" /\ out.raised = "") =>
       \A r \in get_financial_statements(db.financial_statements, out.user_id, "combined") :
         r.statement_data = out.result

C15_MethodAndConfidence ==
  (out.fn \in {"get_audit_trail", "export_audit_trail"} /\ out.raised = "") =>
    LET data == db.trial_balance_data[out.user_id]
        mappings == get_account_mappings(db.account_mappings, out.user_id)
        audit_data == out.result.audit_data
    IN  \A i \in DOMAIN audit_data :
          IF audit_data[i].account_code \in DOMAIN mappings
          THEN /\ audit_data[i].mapping_method = "auto_mapped"
               /\ audit_data[i].mapping_confidence = "medium"
          ELSE /\ audit_data[i].tea_category = "Unmapped"
               /\ audit_data[i].gasb_category = "Unmapped"
               /\ audit_data[i].fund_category = "Unmapped"
               /\ audit_data[i].mapping_method = "unmapped"
               /\ audit_data[i].mapping_confidence = "none"
               /\ audit_data[i].processing_notes = "Account not mapped"

NP_LINE_CODE ==
  [p \in NP_LEAVES |->
     CASE p = "assets.cash_and_cash_equivalents" -> "1110"
       [] p = "assets.property_taxes_receivable" -> "1225"
       [] p = "assets.due_from_other_governments" -> "1240"
       [] p = "assets.due_from_fiduciary" -> "1267"
       [] p = "assets.other_receivables" -> "1290"
       [] p = "assets.inventories" -> "1300"
       [] p = "assets.unrealized_expenses" -> "1410"
       [] p = "assets.capital_assets.land" -> "1510"
       [] p = "assets.capital_assets.buildings_improvements" -> "1520"
       [] p = "assets.capital_assets.furniture_equipment" -> "1530"
       [] p = "assets.capital_assets.construction_in_progress" -> "1580"
       [] p = "deferred_outflows.deferred_charge_refunding" -> "1701"
       [] p = "deferred_outflows.deferred_outflow_pensions" -> "1705"
       [] p = "deferred_outflows.deferred_outflow_opeb" -> "1706"
       [] p = "liabilities.accounts_payable" -> "2110"
       [] p = "liabilities.interest_payable" -> "2140"
       [] p = "liabilities.accrued_liabilities" -> "2165"
       [] p = "liabilities.due_to_other_governments" -> "2180"
       [] p = "liabilities.unearned_revenue" -> "2300"
       [] p = "liabilities.noncurrent_liabilities.due_within_one_year" -> "2501"
       [] p = "liabilities.noncurrent_liabilities.due_more_than_one_year" -> "2502"
       [] p = "liabilities.noncurrent_liabilities.net_pension_liability" -> "2540"
       [] p = "liabilities.noncurrent_liabilities.net_opeb_liability" -> "2545"
       [] p = "deferred_inflows.deferred_inflow_pensions" -> "2605"
       [] p = "deferred_inflows.deferred_inflow_opeb" -> "2606"
       [] p = "net_position.net_investment_capital_assets" -> "3200"
       [] p = "net_position.restricted.state_federal_programs" -> "3820"
       [] p = "net_position.restricted.debt_service" -> "3850"
       [] p = "net_position.unrestricted" -> "3900"]

\* the "code" of each program of the statement of activities
ACT_PROGRAM_CODE ==
  [k \in Range(ACT_PROGRAMS) |->
     CASE k = "instruction" -> "11"
       [] k = "instructional_resources" -> "12"
       [] k = "curriculum_staff_dev" -> "13"
       [] k = "instructional_leadership" -> "21"
       [] k = "school_leadership" -> "23"
       [] k = "guidance_counseling" -> "31"
       [] k = "social_work" -> "32"
       [] k = "health_services" -> "33"
       [] k = "student_transportation" -> "34"
       [] k = "food_service" -> "35"
       [] k = "cocurricular" -> "36"
       [] k = "general_admin" -> "41"
       [] k = "facilities_maintenance" -> "51"
       [] k = "security_monitoring" -> "52"
       [] k = "data_processing" -> "53"
       [] k = "community_services" -> "61"
       [] k = "interest_long_term_debt" -> "72"
       [] k = "bond_issuance_costs" -> "73"
       [] k = "capital_outlay" -> "81"
       [] k = "shared_services" -> "93"
       [] k = "other_intergovernmental" -> "99"]

\* the "code" of each general-revenue line
ACT_GENERAL_REVENUE_CODE ==
  [k \in Range(ACT_GENERAL_REVENUES) |->
     CASE k = "property_taxes_general" -> "MT"
       [] k = "property_taxes_debt" -> "DT"
       [] k = "chapter_313_payments" -> ""
       [] k = "investment_earnings" -> "IE"
       [] k = "grants_contributions" -> "GC"
       [] k = "miscellaneous" -> "MI"]

\* the codes of the leaves of a statement of net position that hold an amount
NetPositionCodesAdded(statement) ==
  {NP_LINE_CODE[p] : p \in {q \in NP_LEAVES : statement.amount[q] # 0}}

\* the codes of the lines of a statement of activities that hold an amount of a row
ActivitiesCodesAdded(statement) ==
  {ACT_PROGRAM_CODE[k] :
     k \in {q \in Range(ACT_PROGRAMS) :
              \/ statement.programs[q].expenses # 0
              \/ statement.programs[q].charges_for_services # 0
              \/ statement.programs[q].operating_grants # 0}}
    \cup {ACT_GENERAL_REVENUE_CODE[k] :
             k \in {q \in Range(ACT_GENERAL_REVENUES) : statement.general_revenues[q] # 0}}

\* what the audit trail reports of the one row, mapped by create_default_mapping
C20_Info ==
  LET account_series == PadRight(arg, ACCOUNT_CODE_WIDTH)
  IN  get_statement_mapping_info(arg, mapping[arg].gasb_category,
                                 Slice(account_series, 5, 9), Slice(account_series, 3, 5))

\* C20: the statement line get_statement_mapping_info names of a row mapped by
\* create_default_mapping is the line the aggregator adds the row to: a line of the
\* statement of net position is the leaf of that code, a line of the statement of
\* activities is the line of that code; and a row that neither aggregator adds to a line
\* is reported under no line of these statements
C20_LookupAgreesWithRouting ==
  LET info == C20_Info
      concrete == info.statement_line_code # "XX"
  IN  /\ (IsNetPosition /\ info.statement_type = "Net Position" /\ concrete)
           => info.statement_line_code \in NetPositionCodesAdded(out.result)
      /\ (IsActivities /\ info.statement_type = "Activities" /\ concrete)
           => info.statement_line_code \in ActivitiesCodesAdded(out.result)
      /\ (/\ IsNetPosition \/ IsActivities
          /\ NetPositionCodesAdded(generate_government_wide_net_position(rows, mapping)) = {}
          /\ ActivitiesCodesAdded(generate_government_wide_activities(rows, mapping)) = {})
           => ~(info.statement_type \in {"Net Position", "Activities"} /\ concrete)

(***************************************************************************)
(* The classifier, case by case                                            *)
(***************************************************************************)
\* the first two digits of an object code, as a number
C21_Prefix(object_code) == object_code[1] * 10 + object_code[2]

\* the category the prefix of an object code stands for
C21_ByPrefix(object_code) ==
  LET p == C21_Prefix(object_code)
  IN  CASE p \in 11..14 -> "current_assets"
        [] p = 15 -> "capital_assets"
        [] p = 17 -> "deferred_outflows"
        [] p \in {10, 16, 18, 19} -> "current_assets"
        [] p \in 21..23 -> "current_liabilities"
        [] p \in 24..25 -> "long_term_liabilities"
        [] p = 26 -> "deferred_inflows"
        [] p \in {20, 27, 28, 29} -> "current_liabilities"
        [] p = 32 -> "net_investment_capital_assets"
        [] p \in 33..38 -> "restricted_net_position"
        [] p = 39 -> "unrestricted_net_position"
        [] p \in {30, 31} -> "restricted_net_position"
        [] p \in 51..53 -> "program_revenues"
        [] p \in {50} \cup 54..59 -> "general_revenues"
        [] p \in 61..65 -> "program_expenses"
        [] p \in {60} \cup 66..69 -> "general_expenses"
        [] p \in 70..79 -> "other_resources"
        [] p \in 80..89 -> "other_uses"
        [] OTHER -> "unknown"

\* C21: on a code of 9 or more characters get_gasb_category returns the first key of
\* GASB_CATEGORIES whose tea_codes hold the object code, or without such a key the
\* category of the prefix; on a shorter code it returns 'unknown'
C21_GasbCategory ==
  out.fn = "get_gasb_category" =>
    IF Len(arg) >= 9
    THEN LET object_code == SubSeq(arg, 6, 9)
             holding == {i \in DOMAIN GASB_CATEGORIES :
                           object_code \in GASB_CATEGORIES[i].tea_codes}
         IN  IF holding # {}
             THEN \E i \in holding :
                    /\ \A j \in holding : i <= j
                    /\ out.result = GASB_CATEGORIES[i].category
             ELSE out.result = C21_ByPrefix(object_code)
    ELSE out.result = "unknown"

\* an object code of the fifties, in no tea_codes list, is classified by its prefix
C21_Witness ==
  /\ out.fn = "get_gasb_category"
  /\ Len(arg) >= 9
  /\ GasbExactMatch(Slice(arg, 5, 9)) = 0
  /\ out.result = "general_revenues"

\* C28: on an account code of 9 or more digits for which get_tea_category returns one of
\* the 8 names of TEA_OBJECT_CATEGORIES, get_gasb_category does not return 'unknown'
C28_UnknownOnlyTogether ==
  (/\ out.fn = "get_gasb_category"
   /\ Len(arg) >= 9
   /\ get_tea_category(arg) \in TeaNames)
    => out.result # "unknown"

(***************************************************************************)
(* The totals of the statements                                            *)
(***************************************************************************)
\* the sum of f over a set of its arguments
RECURSIVE C22_Sum(_, _)
C22_Sum(f, set) ==
  IF set = {} THEN 0
  ELSE LET x == CHOOSE y \in set : TRUE IN f[x] + C22_Sum(f, set \ {x})

\* the leaves under each total of the statement of net position
C22_NetPositionChildren ==
  [ total \in NP_TOTALS |->
      CASE total = "assets.total_assets" ->
             { "assets.cash_and_cash_equivalents", "assets.property_taxes_receivable",
               "assets.due_from_other_governments", "assets.due_from_fiduciary",
               "assets.other_receivables", "assets.inventories", "assets.unrealized_expenses",
               "assets.capital_assets.land", "assets.capital_assets.buildings_improvements",
               "assets.capital_assets.furniture_equipment",
               "assets.capital_assets.construction_in_progress" }
        [] total = "deferred_outflows.total_deferred_outflows" ->
             { "deferred_outflows.deferred_charge_refunding",
               "deferred_outflows.deferred_outflow_pensions",
               "deferred_outflows.deferred_outflow_opeb" }
        [] total = "liabilities.total_liabilities" ->
             { "liabilities.accounts_payable", "liabilities.interest_payable",
               "liabilities.accrued_liabilities", "liabilities.due_to_other_governments",
               "liabilities.unearned_revenue",
               "liabilities.noncurrent_liabilities.due_within_one_year",
               "liabilities.noncurrent_liabilities.due_more_than_one_year",
               "liabilities.noncurrent_liabilities.net_pension_liability",
               "liabilities.noncurrent_liabilities.net_opeb_liability" }
        [] total = "deferred_inflows.total_deferred_inflows" ->
             { "deferred_inflows.deferred_inflow_pensions",
               "deferred_inflows.deferred_inflow_opeb" }
        [] total = "net_position.total_net_position" ->
             { "net_position.net_investment_capital_assets",
               "net_position.restricted.state_federal_programs",
               "net_position.restricted.debt_service", "net_position.unrestricted" } ]

\* the leaves under each total of the balance sheet of the governmental funds
C22_FundsBalanceChildren ==
  [ total \in FB_TOTALS \ {"total_liabilities_deferred_fund_balances"} |->
      CASE total = "assets.total_assets" ->
             { "assets.cash_and_equivalents", "assets.taxes_receivable",
               "assets.due_from_other_governments", "assets.due_from_other_funds",
               "assets.other_receivables", "assets.inventories",
               "assets.unrealized_expenditures" }
        [] total = "liabilities.total_liabilities" ->
             { "liabilities.current_liabilities.accounts_payable",
               "liabilities.current_liabilities.payroll_deductions",
               "liabilities.current_liabilities.accrued_wages",
               "liabilities.current_liabilities.due_to_other_funds",
               "liabilities.current_liabilities.due_to_other_governments",
               "liabilities.current_liabilities.unearned_revenue" }
        [] total = "deferred_inflows.total_deferred_inflows" ->
             { "deferred_inflows.unavailable_revenue_property_taxes" }
        [] total = "fund_balances.total_fund_balances" ->
             { "fund_balances.nonspendable.inventories",
               "fund_balances.nonspendable.prepaid_items",
               "fund_balances.restricted.federal_state_funds",
               "fund_balances.restricted.retirement_long_term_debt",
               "fund_balances.restricted.other_restrictions",
               "fund_balances.committed.construction",
               "fund_balances.committed.other_committed",
               "fund_balances.assigned.other_assigned", "fund_balances.unassigned" } ]

\* C22: in a returned statement of net position and a returned balance sheet of the funds
\* every total is the sum of the leaves under it as the statement holds them, in each fund
\* column of the balance sheet, and total_liabilities_deferred_fund_balances is
\* total_liabilities + total_deferred_inflows + total_fund_balances
C22_TotalsAreSums ==
  /\ IsNetPosition =>
       \A total \in NP_TOTALS :
         out.result.amount[total] = C22_Sum(out.result.amount, C22_NetPositionChildren[total])
  /\ (IsFundsBalance /\ out.result.raised = "") =>
       \A fk \in {"general_fund", "non_major_funds"} :
         LET column == [p \in DOMAIN out.result.amount |-> out.result.amount[p][fk]]
         IN  /\ \A total \in DOMAIN C22_FundsBalanceChildren :
                  column[total] = C22_Sum(column, C22_FundsBalanceChildren[total])
             /\ column["total_liabilities_deferred_fund_balances"]
                  = column["liabilities.total_liabilities"]
                      + column["deferred_inflows.total_deferred_inflows"]
                      + column["fund_balances.total_fund_balances"]

\* a statement of net position whose total_assets is the sum of a current and a capital
\* asset
C22_Witness ==
  /\ IsNetPosition
  /\ out.result.amount["assets.cash_and_cash_equivalents"] # 0
  /\ out.result.amount["assets.capital_assets.buildings_improvements"] # 0
  /\ out.result.amount["assets.total_assets"] # 0

\* C23: for every trial balance, the empty one too, the statement of revenues and
\* expenditures of the funds has in each fund column excess_deficiency = total_revenues -
\* total_expenditures, net_change = excess_deficiency + total_other_financing,
\* fund_balances.beginning 25217718 for general_fund and 4550784 for non_major_funds, and
\* fund_balances.ending = beginning + net_change
C23_FundBalanceArithmetic ==
  (IsFundsRevExp /\ out.result.raised = "") =>
    \A fk \in {"general_fund", "non_major_funds"} :
      LET column == [p \in DOMAIN out.result.amount |-> out.result.amount[p][fk]]
      IN  /\ column["excess_deficiency"]
               = column["revenues.total_revenues"] - column["expenditures.total_expenditures"]
          /\ column["net_change"]
               = column["excess_deficiency"] + column["other_financing.total_other_financing"]
          /\ column["fund_balances.beginning"]
               = IF fk = "general_fund" THEN 25217718 ELSE 4550784
          /\ column["fund_balances.ending"]
               = column["fund_balances.beginning"] + column["net_change"]

\* the program lines of the statement of activities that are no total line
C24_ProgramLines == DOMAIN out.result.programs \ {"total_governmental", "total_primary"}

C25_BuildersAgree ==
  (out.fn \in {"get_audit_trail", "export_audit_trail"} /\ out.raised = "") =>
    LET data == db.trial_balance_data[out.user_id]
        mappings == get_account_mappings(db.account_mappings, out.user_id)
    IN  out.result.audit_data
          = IF out.fn = "get_audit_trail"
            THEN Flatten([i \in DOMAIN data |-> ExportRecords(data[i], mappings)])
            ELSE Flatten([i \in DOMAIN data |-> AuditRecords(data[i], mappings)])

(***************************************************************************)
(* Unearned revenue in the statement of net position                       *)
(***************************************************************************)
\* the amounts of the mapped rows of df whose object code is 2300
RECURSIVE C26_UnearnedRevenue(_, _)
C26_UnearnedRevenue(df, mapping_) ==
  IF df = <<>> THEN 0
  ELSE (IF /\ Head(df).account_code \in DOMAIN mapping_
           /\ NetPositionObjectCode(Head(df).account_code) = S(2300, 4)
        THEN Head(df).current_year_actual ELSE 0)
       + C26_UnearnedRevenue(Tail(df), mapping_)

\* C26: the statement of net position adds the amount of every mapped row whose object
\* code is 2300 to liabilities.unearned_revenue, so that this line can be other than zero
C26_UnearnedRevenueRouted ==
  IsNetPosition =>
    out.result.amount["liabilities.unearned_revenue"] = C26_UnearnedRevenue(rows, mapping)

(***************************************************************************)
(* What a generation of statements needs                                   *)
(***************************************************************************)
\* the user has a stored row of account_mappings
C27_HasMappings(store, user_id) == \E r \in store.account_mappings : r.user_id = user_id

\* a step of generate_statements: without an uploaded trial balance or without stored
\* mappings it answers 400 and leaves the store as it was, with both it succeeds and adds
\* the user's statements and nothing else; no other step writes statements
C27_Step ==
  IF out'.fn = "generate_statements"
  THEN LET u == out'.user_id
       IN  IF db.trial_balance_data[u] = NoData \/ ~C27_HasMappings(db, u)
           THEN out'.raised = "400" /\ db' = db
           ELSE /\ out'.raised = ""
                /\ Len(db'.financial_statements) = Len(db.financial_statements) + 1
                /\ SubSeq(db'.financial_statements, 1, Len(db.financial_statements))
                     = db.financial_statements
                /\ db'.financial_statements[Len(db'.financial_statements)].user_id = u
                /\ db' = [db EXCEPT !.financial_statements = db'.financial_statements]
  ELSE db'.financial_statements = db.financial_statements

\* C27: generate-statements fails with 400 and stores nothing when the user has no
\* uploaded trial balance or no stored mappings, and succeeds and stores only when both
\* exist: stored statements of a user come after an upload and a mapping write of theirs
C27_GenerateNeedsBoth ==
  /\ [][C27_Step]_vars
  /\ [](\A i \in DOMAIN db.financial_statements :
          db.trial_balance_data[db.financial_statements[i].user_id] # NoData)

\* the first user has stored statements, and the second, with stored mappings and no
\* upload, has just been refused
C27_Witness ==
  /\ \E i \in DOMAIN db.financial_statements : db.financial_statements[i].user_id = "u1"
  /\ out.fn = "generate_statements" /\ out.user_id = "u2" /\ out.raised = "400"
  /\ C27_HasMappings(db, "u2")
  /\ db.trial_balance_data["u2"] = NoData

(***************************************************************************)
(* Revenues and expenditures, every row once                               *)
(***************************************************************************)
\* a total of the funds statement over both fund columns
C29_BothColumns(total) ==
  out.result.amount[total]["general_fund"] + out.result.amount[total]["non_major_funds"]

\* the names of the lines the row's amount is added to, once per addition
C29_LinesOf(row) ==
  LET calls == FundsRevExpCalls(Slice(row.account_code, 5, 9), Slice(row.account_code, 3, 5))
  IN  [i \in DOMAIN calls |-> calls[i].path]

\* C29: the funds statement of revenues and expenditures counts every row whose object
\* code begins with 5 in exactly one of the three revenue lines and every row whose
\* object code begins with 6 in exactly one of the 22 expenditure lines, once and in one
\* fund column: total_revenues over both columns is the sum of the 5xxx amounts and
\* total_expenditures over both columns the sum of the 6xxx amounts
C29_EveryRowOnce ==
  (IsFundsRevExp /\ out.result.raised = "") =>
    /\ C29_BothColumns("revenues.total_revenues") = SumAmounts(RowsBeginning({5}))
    /\ C29_BothColumns("expenditures.total_expenditures") = SumAmounts(RowsBeginning({6}))
    /\ \A i \in DOMAIN rows :
         /\ ObjectBegins(rows[i], 5)
              => Len(C29_LinesOf(rows[i])) = 1 /\ C29_LinesOf(rows[i])[1] \in Range(RE_REVENUES)
         /\ ObjectBegins(rows[i], 6)
              => /\ Len(C29_LinesOf(rows[i])) = 1
                 /\ C29_LinesOf(rows[i])[1] \in Range(RE_EXPENDITURES)

\* a revenue of the default bucket in one fund column and an expenditure of a function
\* outside exp_map in the other
C29_Witness ==
  /\ IsFundsRevExp /\ out.result.raised = ""
  /\ Len(rows) = 2
  /\ ObjectBegins(rows[1], 5) /\ ~Match575859(Slice(rows[1].account_code, 5, 9))
  /\ C29_LinesOf(rows[2]) = <<"expenditures.current.general_admin">>
  /\ Slice(rows[2].account_code, 3, 5) = S(45, 2)
  /\ out.result.amount["revenues.local_intermediate_sources"]["general_fund"] # 0
  /\ out.result.amount["expenditures.current.general_admin"]["non_major_funds"] # 0

(***************************************************************************)
(* The audit trail and the mappings it was built of                        *)
(***************************************************************************)
\* C30: in every reachable state, whatever the order of uploads, auto-map, save-mapping
\* (the empty body and None entries too), delete-all-mappings and audit-trail
\* generations, a user with a stored audit trail has at least one stored mapping
C30_AuditTrailHasMappings ==
  \A u \in Users :
    get_stored_audit_trail(db.audit_trails, u) # {}
      => \E r \in db.account_mappings : r.user_id = u

====
